---- MODULE Spec2Model ----
(***************************************************************************)
(* Model of the deposition-detection analysis core:                        *)
(*   src/src/analysis/hsv_analyzer.py   (HSVAnalyzer, HSVStats)            *)
(*   src/src/analysis/profile_manager.py (ThresholdProfile)                *)
(*   src/src/camera/processor.py        (ImageProcessor)                   *)
(*                                                                         *)
(* Python floats are modelled as exact rationals <<num, den>> in lowest    *)
(* terms with den > 0; NaN is the pair <<0, 0>>.  Python None is the empty *)
(* tuple; an optional record is wrapped in a one-element tuple.            *)
(***************************************************************************)
EXTENDS Integers, Sequences, FiniteSets, TLC

\* ------------------------------------------------------------------------
\* Bounds of the model
\* ------------------------------------------------------------------------

\* frames the analyzer may consume (update or set_reference) when every
\* operation is driven
MaxFrames == 2

\* frames the analyzer may consume when the signal chain is driven
MaxSamples == 3

\* largest window size passed to set_derivative_smoothing when the signal
\* chain is driven
MaxWindow == 2

\* frames the capture loop reads from the stream
MaxCaptures == 2

\* copies get_frame hands out
MaxCopies == 3

\* loop iterations followed after a stop flag is set
MaxLate == 2

\* measurements of the same scene after a reference was set
MaxRepeats == 20

\* measurements of the same scene after the first update adopted the baseline
MaxRise == 3

\* capture threads started by one process, main's included
MaxLoops == 3

\* frames stored by one capture thread
MaxStores == 2

\* frames of the video file that is streamed
MaxVideoFrames == 2

\* ------------------------------------------------------------------------
\* Python values
\* ------------------------------------------------------------------------

None == << >>

Some(x) == <<x>>

\* float('nan')
NaN == <<0, 0>>

IsNaN(a) == a[2] = 0

Abs(n) == IF n < 0 THEN -n ELSE n

RECURSIVE GCD(_, _)
GCD(a, b) == IF b = 0 THEN a ELSE GCD(b, a % b)

\* the float n/d (d /= 0), in lowest terms
Norm(n, d) ==
    LET g == GCD(Abs(n), Abs(d))
        s == IF d < 0 THEN -1 ELSE 1
    IN  <<s * (n \div g), s * (d \div g)>>

\* the float of an integer literal
Q(n) == <<n, 1>>

RAdd(a, b) ==
    IF IsNaN(a) \/ IsNaN(b) THEN NaN
    ELSE IF a[2] = b[2]
    THEN IF a[2] = 1 THEN <<a[1] + b[1], 1>> ELSE Norm(a[1] + b[1], a[2])
    ELSE LET g == GCD(a[2], b[2])
             n == a[1] * (b[2] \div g) + b[1] * (a[2] \div g)
             h == IF g = 1 THEN 1 ELSE GCD(Abs(n), g)
         IN  <<n \div h, (a[2] \div g) * (b[2] \div h)>>

RNeg(a) == IF IsNaN(a) THEN NaN ELSE <<-a[1], a[2]>>

RSub(a, b) == RAdd(a, RNeg(b))

RMul(a, b) ==
    IF IsNaN(a) \/ IsNaN(b) THEN NaN
    ELSE IF a[1] = 0 \/ b[1] = 0 THEN <<0, 1>>
    ELSE LET g1 == IF b[2] = 1 THEN 1 ELSE GCD(Abs(a[1]), b[2])
             g2 == IF a[2] = 1 THEN 1 ELSE GCD(Abs(b[1]), a[2])
         IN  <<(a[1] \div g1) * (b[1] \div g2), (a[2] \div g2) * (b[2] \div g1)>>

\* a / b for b /= 0
RDiv(a, b) ==
    IF IsNaN(a) \/ IsNaN(b) THEN NaN
    ELSE RMul(a, IF b[1] < 0 THEN <<-b[2], -b[1]>> ELSE <<b[2], b[1]>>)

RAbs(a) == IF IsNaN(a) THEN NaN ELSE <<Abs(a[1]), a[2]>>

\* float comparisons: every ordered comparison with NaN is False
RLe(a, b) ==
    /\ ~IsNaN(a)
    /\ ~IsNaN(b)
    /\ LET g == GCD(a[2], b[2]) IN a[1] * (b[2] \div g) <= b[1] * (a[2] \div g)

RLt(a, b) ==
    /\ ~IsNaN(a)
    /\ ~IsNaN(b)
    /\ LET g == GCD(a[2], b[2]) IN a[1] * (b[2] \div g) < b[1] * (a[2] \div g)

RGe(a, b) == RLe(b, a)

RGt(a, b) == RLt(b, a)

\* a != b on floats: NaN differs from everything
RNe(a, b) == IsNaN(a) \/ IsNaN(b) \/ a # b

Last(s) == s[Len(s)]

\* the list with the elements of the sequence s, each computed once
List(s) == SubSeq(s, 1, Len(s))

\* s[1] + ... + s[n]
RECURSIVE RSumTo(_, _)
RSumTo(s, n) == IF n = 0 THEN Q(0) ELSE RAdd(RSumTo(s, n - 1), s[n])

RSum(s) == RSumTo(s, Len(s))

\* ------------------------------------------------------------------------
\* HSVStats, ThresholdProfile
\* ------------------------------------------------------------------------

\* the nine thresholded channels, in the order check_thresholds lists them
Channels == <<"h_decay", "s_decay", "v_decay", "dh", "ds", "dv", "ddh", "dds", "ddv">>

HSVStats(h_m, s_m, v_m, h_decay, s_decay, v_decay, dh, ds, dv, ddh, dds, ddv) ==
    [h_m |-> h_m, s_m |-> s_m, v_m |-> v_m,
     h_decay |-> h_decay, s_decay |-> s_decay, v_decay |-> v_decay,
     dh |-> dh, ds |-> ds, dv |-> dv,
     ddh |-> ddh, dds |-> dds, ddv |-> ddv]

ThresholdProfile(name, h_decay, s_decay, v_decay, dh, ds, dv, ddh, dds, ddv) ==
    [name |-> name,
     h_decay |-> h_decay, s_decay |-> s_decay, v_decay |-> v_decay,
     dh |-> dh, ds |-> ds, dv |-> dv,
     ddh |-> ddh, dds |-> dds, ddv |-> ddv]

\* ------------------------------------------------------------------------
\* HSVAnalyzer.check_thresholds
\* ------------------------------------------------------------------------

\* the list of (threshold, value) pairs of the nine channels
threshold_checks(profile, stats) ==
    List([i \in 1..Len(Channels) |-> <<profile[Channels[i]], stats[Channels[i]]>>])

\* the direction chosen by the strict sign of the threshold
condition_strict_sign(threshold, value) ==
    IF RGt(threshold, Q(0)) THEN RGe(value, threshold) ELSE RLe(value, threshold)

\* the condition appended for one configured threshold
condition(threshold, value) ==
    IF RGe(threshold, Q(0)) THEN RGe(value, threshold) ELSE RLe(value, threshold)

\* the conditions of the thresholds that are not None, in list order
RECURSIVE active_conditions(_)
active_conditions(checks) ==
    IF checks = << >> THEN << >>
    ELSE LET threshold == checks[1][1]
             value == checks[1][2]
         IN  (IF threshold # None THEN <<condition(threshold, value)>> ELSE << >>)
             \o active_conditions(Tail(checks))

\* any() in place of all()
any_condition(conds) ==
    IF conds = << >> THEN FALSE ELSE \E i \in 1..Len(conds) : conds[i]

\* "if not active_conditions: return False; return all(active_conditions)"
all_conditions(conds) ==
    IF conds = << >> THEN FALSE ELSE \A i \in 1..Len(conds) : conds[i]

\* check_thresholds with self.current_profile passed explicitly
check_thresholds(profile, stats) ==
    IF profile = None THEN FALSE
    ELSE all_conditions(active_conditions(threshold_checks(profile[1], stats)))

\* ------------------------------------------------------------------------
\* Frames and the library calls of ImageProcessor
\* ------------------------------------------------------------------------

\* frame.shape[:2] = (rows, columns) of every frame of the model
FrameShape == <<3, 4>>

Rows == 0..(FrameShape[1] - 1)

Cols == 0..(FrameShape[2] - 1)

\* floor(100 * x) of a float x >= 0, the two decimals the library models keep
Fix100(x) ==
    IF x[1] <= 20000000 THEN (x[1] * 100) \div x[2]
    ELSE x[1] \div (IF x[2] >= 100 THEN x[2] \div 100 ELSE 1)

RECURSIVE ISqrtFrom(_, _)
ISqrtFrom(n, r) == IF (r + 1) * (r + 1) > n THEN r ELSE ISqrtFrom(n, r + 1)

\* np.sqrt, to one decimal place
Sqrt(x) == IF IsNaN(x) THEN NaN ELSE Norm(ISqrtFrom(Fix100(x), 0), 10)

\* np.exp(-x) for x >= 0, as 1 / (1 + x + x^2/2) to two decimal places
ExpNeg(x) ==
    IF IsNaN(x) THEN NaN
    ELSE LET f == Fix100(x)
             X == IF f > 1000 THEN 1000 ELSE f
         IN  Norm(2000000 \div (20000 + 200 * X + X * X), 100)

\* float % m for an integer m > 0
RMod(a, m) == IF IsNaN(a) THEN NaN ELSE RSub(a, Q(m * (a[1] \div (a[2] * m))))

\* ImageProcessor.to_hsv: cv2.cvtColor(frame, COLOR_BGR2HSV); a frame of the
\* model carries the result of the conversion next to its contours
to_hsv(frame) == frame.hsv

\* the pixels <<row, column>> of a frame, row by row
PixelList ==
    List([i \in 1..(FrameShape[1] * FrameShape[2]) |->
            <<(i - 1) \div FrameShape[2], (i - 1) % FrameShape[2]>>])

\* a selection that takes no pixel when there is no mask
Selected_by_mask_only(mask, p) == mask # None /\ mask[p[1] + 1][p[2] + 1] > 0

\* mask > 0 at pixel p; every pixel when the mask is None
Selected(mask, p) == mask = None \/ mask[p[1] + 1][p[2] + 1] > 0

\* the number of selected pixels among the first n
RECURSIVE CountTo(_, _)
CountTo(mask, n) ==
    IF n = 0 THEN 0
    ELSE CountTo(mask, n - 1) + (IF Selected(mask, PixelList[n]) THEN 1 ELSE 0)

\* the sum of channel ch over the selected pixels among the first n
RECURSIVE SumTo(_, _, _, _)
SumTo(hsv, ch, mask, n) ==
    IF n = 0 THEN 0
    ELSE SumTo(hsv, ch, mask, n - 1)
         + (IF Selected(mask, PixelList[n])
            THEN hsv[PixelList[n][1] + 1][PixelList[n][2] + 1][ch] ELSE 0)

\* np.mean of one channel over the selected pixels; nan over no pixel
Mean(hsv, ch, mask) ==
    IF CountTo(mask, Len(PixelList)) = 0 THEN NaN
    ELSE Norm(SumTo(hsv, ch, mask, Len(PixelList)), CountTo(mask, Len(PixelList)))

\* ImageProcessor.get_hsv_stats
get_hsv_stats(hsv_frame, mask) ==
    [h_m |-> Mean(hsv_frame, 1, mask),
     s_m |-> Mean(hsv_frame, 2, mask),
     v_m |-> Mean(hsv_frame, 3, mask)]

\* ------------------------------------------------------------------------
\* ImageProcessor.blend_ellipses, ImageProcessor.mask_ellipse_contour
\* An ellipse is the tuple <<<<x, y>>, <<width, height>>, angle>>.
\* ------------------------------------------------------------------------

\* a blend that averages the two angles as they are
blend_ellipses_unwrapped(current_ellipse, prev_ellipse, alpha) ==
    IF prev_ellipse = None THEN current_ellipse
    ELSE LET Blend(p, c) == RAdd(RMul(alpha, p), RMul(RSub(Q(1), alpha), c))
         IN  << <<Blend(prev_ellipse[1][1], current_ellipse[1][1]),
                  Blend(prev_ellipse[1][2], current_ellipse[1][2])>>,
                <<Blend(prev_ellipse[2][1], current_ellipse[2][1]),
                  Blend(prev_ellipse[2][2], current_ellipse[2][2])>>,
                RMod(Blend(prev_ellipse[3], current_ellipse[3]), 180) >>

blend_ellipses(current_ellipse, prev_ellipse, alpha) ==
    IF prev_ellipse = None THEN current_ellipse
    ELSE LET wrap == RGt(RAbs(RSub(current_ellipse[3], prev_ellipse[3])), Q(90))
             cur_gt == RGt(current_ellipse[3], prev_ellipse[3])
             angle_prev == IF wrap /\ cur_gt THEN RAdd(prev_ellipse[3], Q(180))
                           ELSE prev_ellipse[3]
             angle_current == IF wrap /\ ~cur_gt THEN RAdd(current_ellipse[3], Q(180))
                              ELSE current_ellipse[3]
             Blend(p, c) == RAdd(RMul(alpha, p), RMul(RSub(Q(1), alpha), c))
         IN  << <<Blend(prev_ellipse[1][1], current_ellipse[1][1]),
                  Blend(prev_ellipse[1][2], current_ellipse[1][2])>>,
                <<Blend(prev_ellipse[2][1], current_ellipse[2][1]),
                  Blend(prev_ellipse[2][2], current_ellipse[2][2])>>,
                RMod(Blend(angle_prev, angle_current), 180) >>

\* the score of one contour, or None when the loop skips it ("continue")
contour_score(contour, prev_ellipse) ==
    LET w == FrameShape[2]
        h == FrameShape[1]
        ellipse == contour.fit
        aspect_ratio == RDiv(ellipse[2][1], ellipse[2][2])
        frame_center == <<w \div 2, h \div 2>>
        sq(x) == RMul(x, x)
        distance_from_center ==
            Sqrt(RAdd(sq(RSub(ellipse[1][1], Q(frame_center[1]))),
                      sq(RSub(ellipse[1][2], Q(frame_center[2])))))
        center_weight ==
            RSub(Q(1), RDiv(distance_from_center,
                            RMul(<<1, 2>>, Sqrt(Q(w * w + h * h)))))
        base_score ==
            RMul(RMul(contour.length, RSub(Q(1), RAbs(RSub(Q(1), aspect_ratio)))),
                 center_weight)
        prev_dist ==
            Sqrt(RAdd(sq(RSub(ellipse[1][1], prev_ellipse[1][1])),
                      sq(RSub(ellipse[1][2], prev_ellipse[1][2]))))
        dist_weight == ExpNeg(RDiv(prev_dist, RMul(<<1, 5>>, Q(w))))
        size_ratio == RDiv(RMul(ellipse[2][1], ellipse[2][2]),
                           RMul(prev_ellipse[2][1], prev_ellipse[2][2]))
        size_weight == ExpNeg(RAbs(RSub(Q(1), size_ratio)))
        temporal_score ==
            IF prev_ellipse # None THEN RMul(<<1, 2>>, RAdd(dist_weight, size_weight))
            ELSE Q(1)
    IN  IF RLt(contour.length, RMul(<<2, 5>>, Q(w))) \/ RGt(contour.length, Q(3 * w))
        THEN None
        ELSE IF contour.npts < 5 THEN None
        ELSE IF ellipse = None THEN None
        ELSE IF RLt(aspect_ratio, <<1, 2>>) THEN None
        ELSE RMul(base_score, RAdd(Q(1), temporal_score))

\* the loop over the contours: best = [ellipse, score] found so far
RECURSIVE best_contour(_, _, _)
best_contour(contours, prev_ellipse, best) ==
    IF contours = << >> THEN best
    ELSE LET score == contour_score(contours[1], prev_ellipse)
             next == IF score # None /\ RGt(score, best.score)
                     THEN [ellipse |-> contours[1].fit, score |-> score]
                     ELSE best
         IN  best_contour(Tail(contours), prev_ellipse, next)

\* (smoothed_ellipse[0], ((1 - margin) * axes), smoothed_ellipse[2])
inner_of(ellipse, ellipse_margin) ==
    <<ellipse[1],
      <<RMul(RSub(Q(1), ellipse_margin), ellipse[2][1]),
        RMul(RSub(Q(1), ellipse_margin), ellipse[2][2])>>,
      ellipse[3]>>

\* np.zeros(shape) followed by cv2.ellipse(mask, ellipse, 255, -1): a pixel is
\* filled when its centre lies inside the ellipse (two decimals; the axes are
\* taken along the image axes, swapped for angles in [45, 135))
rasterize(ellipse) ==
    LET swap == RGe(ellipse[3], Q(45)) /\ RLt(ellipse[3], Q(135))
        ax == IF swap THEN ellipse[2][2] ELSE ellipse[2][1]
        ay == IF swap THEN ellipse[2][1] ELSE ellipse[2][2]
        U(x) == Fix100(RAbs(RDiv(RSub(Q(x), ellipse[1][1]), RMul(<<1, 2>>, ax))))
        V(y) == Fix100(RAbs(RDiv(RSub(Q(y), ellipse[1][2]), RMul(<<1, 2>>, ay))))
        far(u) == u > 100
        Us == List([c \in 1..FrameShape[2] |-> U(c - 1)])
        Vs == List([r \in 1..FrameShape[1] |-> V(r - 1)])
    IN  List([r \in 1..FrameShape[1] |->
            List([c \in 1..FrameShape[2] |->
                IF ~far(Us[c]) /\ ~far(Vs[r]) /\ Us[c] * Us[c] + Vs[r] * Vs[r] <= 10000
                THEN 255 ELSE 0])])

\* the returned 4-tuple and the processor's new prev_ellipse / prev_mask
\* once the mask of the inner ellipse is drawn
tracked(smoothed_ellipse, inner_ellipse, mask, score) ==
    [mask |-> mask, ellipse |-> smoothed_ellipse,
     inner |-> inner_ellipse, score |-> score,
     prev_ellipse |-> smoothed_ellipse, prev_mask |-> mask]

\* mask = np.zeros(...); cv2.ellipse(mask, inner_ellipse, 255, -1)
draw_inner(smoothed_ellipse, inner_ellipse, score) ==
    tracked(smoothed_ellipse, inner_ellipse, rasterize(inner_ellipse), score)

\* the inner ellipse of the smoothed ellipse
shrink(smoothed_ellipse, score, ellipse_margin) ==
    draw_inner(smoothed_ellipse, inner_of(smoothed_ellipse, ellipse_margin), score)

\* a fallback that forgets the previous ellipse when no contour qualified
after_loop_forgetful(best, prev_ellipse, prev_mask, alpha, ellipse_margin) ==
    IF best.ellipse = None
    THEN [mask |-> None, ellipse |-> None, inner |-> None, score |-> None,
          prev_ellipse |-> None, prev_mask |-> None]
    ELSE shrink(blend_ellipses(best.ellipse, prev_ellipse, alpha), best.score,
                ellipse_margin)

\* what follows the loop over the contours: the fallback when no contour
\* qualified, otherwise the blend with the previous ellipse
after_loop(best, prev_ellipse, prev_mask, alpha, ellipse_margin) ==
    IF best.ellipse = None
    THEN IF prev_ellipse # None
         THEN [mask |-> prev_mask, ellipse |-> prev_ellipse,
               inner |-> prev_ellipse, score |-> Q(0),
               prev_ellipse |-> prev_ellipse, prev_mask |-> prev_mask]
         ELSE [mask |-> None, ellipse |-> None, inner |-> None, score |-> None,
               prev_ellipse |-> prev_ellipse, prev_mask |-> prev_mask]
    ELSE shrink(blend_ellipses(best.ellipse, prev_ellipse, alpha), best.score,
                ellipse_margin)

\* mask_ellipse_contour: the returned 4-tuple and the processor's new
\* prev_ellipse / prev_mask
mask_ellipse_contour(frame, prev_ellipse, prev_mask, alpha, ellipse_margin) ==
    after_loop(best_contour(frame.contours, prev_ellipse,
                            [ellipse |-> None, score |-> Q(0)]),
               prev_ellipse, prev_mask, alpha, ellipse_margin)

\* ------------------------------------------------------------------------
\* Inputs of the model: frames, threshold profiles, smoothing settings
\* ------------------------------------------------------------------------

\* What the library calls compute from a camera frame: the contours that
\* cv2.findContours returns, each with its cv2.arcLength, its number of points
\* and its cv2.fitEllipse (None when the fit raises cv2.error), and the HSV
\* pixels <<h, s, v>> that cv2.cvtColor returns.
Contour(length, npts, fit) == [length |-> length, npts |-> npts, fit |-> fit]

\* a dish in the middle of the frame
EllipseA == << <<Q(2), Q(1)>>, <<Q(3), Q(3)>>, Q(0) >>

\* a narrower dish further left, lying on its side
EllipseB == << <<Q(1), Q(1)>>, <<Q(2), Q(3)>>, Q(100) >>

\* a small ellipse fitted to an arc at the upper edge: it lies above the frame
EllipseOff == << <<Q(2), Q(-1)>>, <<Q(1), Q(1)>>, Q(0) >>

\* a round ellipse fitted to an arc at the lower edge: its centre lies below
\* the frame, farther from the middle than half the diagonal
EllipseFar == << <<Q(2), Q(4)>>, <<Q(2), Q(2)>>, Q(0) >>

Frames ==
    << [contours |-> <<Contour(Q(9), 8, EllipseA)>>,
        hsv |-> << <<<<0, 0, 20>>, <<0, 0, 20>>, <<0, 51, 50>>, <<0, 0, 20>> >>,
                   <<<<0, 0, 20>>, <<0, 51, 50>>, <<0, 51, 50>>, <<0, 51, 50>> >>,
                   <<<<0, 0, 20>>, <<0, 0, 20>>, <<0, 51, 50>>, <<0, 0, 20>> >> >>],
       [contours |-> <<Contour(Q(1), 3, None), Contour(Q(8), 6, EllipseB),
                       Contour(Q(8), 4, EllipseA), Contour(Q(6), 6, None)>>,
        hsv |-> << <<<<0, 0, 20>>, <<60, 85, 60>>, <<0, 0, 20>>, <<0, 0, 20>> >>,
                   <<<<60, 85, 60>>, <<60, 85, 60>>, <<60, 85, 60>>, <<0, 0, 20>> >>,
                   <<<<0, 0, 20>>, <<60, 85, 60>>, <<0, 0, 20>>, <<0, 0, 20>> >> >>],
       [contours |-> << >>,
        hsv |-> << <<<<0, 43, 36>>, <<0, 43, 36>>, <<0, 43, 36>>, <<0, 43, 36>> >>,
                   <<<<0, 43, 36>>, <<0, 43, 36>>, <<0, 43, 36>>, <<0, 43, 36>> >>,
                   <<<<0, 43, 36>>, <<0, 43, 36>>, <<0, 43, 36>>, <<0, 43, 36>> >> >>],
       [contours |-> <<Contour(Q(3), 6, EllipseOff)>>,
        hsv |-> << <<<<0, 0, 20>>, <<0, 60, 40>>, <<0, 60, 40>>, <<0, 0, 20>> >>,
                   <<<<0, 0, 20>>, <<0, 0, 20>>, <<0, 0, 20>>, <<0, 0, 20>> >>,
                   <<<<0, 0, 20>>, <<0, 0, 20>>, <<0, 0, 20>>, <<0, 0, 20>> >> >>],
       [contours |-> << >>,
        hsv |-> [r \in 1..3 |-> [c \in 1..4 |-> <<100, 100, 100>>]]],
       [contours |-> << >>,
        hsv |-> [r \in 1..3 |-> [c \in 1..4 |-> <<105, 100, 95>>]]],
       [contours |-> <<Contour(Q(6), 6, EllipseFar)>>,
        hsv |-> [r \in 1..3 |-> [c \in 1..4 |-> <<0, 0, 20>>]]] >>

FrameIds == 1..Len(Frames)

\* profiles offered to set_profile; None is what ProfileManager.get_profile
\* returns for an unknown name
Profiles ==
    { None,
      Some(ThresholdProfile("s-rise", None, Q(1), None, None, Q(1), None, None, None, None)) }

\* the frames that show a dish inside the frame
DishFrames == {f \in FrameIds : Frames[f].contours # << >>} \ {4}

\* a frame with a dish and the frame without any contour
TrackFrames == {1, 3}

\* a frame with a dish and the frame whose only ellipse lies above the frame
OffFrames == {1, 4}

\* the frame a reference is taken from
ReferenceFrames == {1}

\* the frames with one dish, with several contours, and with the far ellipse
SelectionFrames == {1, 2, 7}

\* the even scene of hue, saturation and value 100 that serves as the
\* baseline of the repeated measurement
BaselineFrame == 5

\* the even scene of hue 105, saturation 100 and value 95, measured repeatedly
RepeatedFrame == 6

\* the profiles whose only threshold is on h_decay: at 4.5 and at 5.5
DecayProfiles ==
    { Some(ThresholdProfile("h-decay", <<9, 2>>, None, None, None, None, None, None,
                            None, None)),
      Some(ThresholdProfile("h-decay-high", <<11, 2>>, None, None, None, None, None,
                            None, None, None)) }

\* angles of an ellipse axis, as cv2.fitEllipse reports them in [0, 180)
Angles == {Q(0), Q(1), Q(45), Q(89), Q(90), Q(91), Q(135), Q(179)}

\* values of the ellipse smoothing factor that the web page can set
Alphas == {Q(0), <<1, 4>>, <<3, 5>>, Q(1)}

\* the dish of EllipseA turned to the given angle
Turned(angle) == <<EllipseA[1], EllipseA[2], angle>>

\* thresholds and values around the bounds +5, 0 and -5
ThresholdValues == {Q(-5), <<-499, 100>>, Q(0), <<499, 100>>, Q(5)}

ChannelSet == {Channels[i] : i \in 1..Len(Channels)}

\* the profile whose thresholds are t1 on channel c1 and t2 on channel c2
ProfileOf(c1, t1, c2, t2) ==
    [x \in {"name"} \cup ChannelSet |->
        IF x = "name" THEN "p"
        ELSE IF x = Channels[c1] THEN t1
        ELSE IF x = Channels[c2] THEN t2
        ELSE None]

\* every profile with at most two thresholds configured
ThresholdProfiles ==
    {None}
    \cup {Some(ProfileOf(c, t, c, t)) :
            c \in 1..Len(Channels), t \in {None, Q(-5), Q(0), Q(5)}}
    \cup {Some(ProfileOf(c[1], t[1], c[2], t[2])) :
            c \in {d \in (1..Len(Channels)) \X (1..Len(Channels)) : d[1] < d[2]},
            t \in {Q(-5), Q(5)} \X {Q(-5), Q(5)}}

\* stats records: one value on every channel but one
ThresholdStats ==
    {[x \in {"h_m", "s_m", "v_m"} \cup ChannelSet |->
        IF x \in {"h_m", "s_m", "v_m"} THEN Q(0)
        ELSE IF x = Channels[c] THEN v ELSE b] :
     c \in 1..Len(Channels), v \in ThresholdValues, b \in {Q(-5), Q(0), Q(5)}}

\* (enable, window_size) pairs offered to set_derivative_smoothing: the
\* window size the analyzer starts with, and the small windows
DefaultSmoothingArgs == {<<FALSE, 5>>, <<TRUE, 5>>}

SmoothingArgs == {<<FALSE, 5>>} \cup {<<TRUE, w>> : w \in 1..MaxWindow}

\* ------------------------------------------------------------------------
\* State
\* ------------------------------------------------------------------------

VARIABLES
    hsv_history,            \* HSVAnalyzer.hsv_history: list of HSVStats
    timestamps,             \* HSVAnalyzer.timestamps: list of times
    ref_stats,              \* None or Some(dict of h_m, s_m, v_m)
    is_paused,
    current_mask,
    current_ellipse,
    inner_ellipse,
    ellipse_score,
    is_ellipse_enabled,
    is_mask_frozen,
    current_smoothed_stats, \* None (attribute not set yet) or Some(HSVStats)
    current_profile,        \* None or Some(ThresholdProfile)
    is_threshold_exceeded,
    derivative_smoothing,
    smoothing_window_size,
    prev_ellipse,           \* ImageProcessor.prev_ellipse
    prev_mask,              \* ImageProcessor.prev_mask
    alpha,                  \* ImageProcessor.alpha
    ellipse_margin,         \* ImageProcessor.ellipse_margin
    call,                   \* the last call made by the driver: [op, arg]
    ret,                    \* what that call returned (None when it raised)
    raised,                 \* the exception that call raised, "" when it returned
    frame_count,            \* frames handed to update / set_reference so far
    camera_frame,           \* Camera.frame: None or Some(array)
    frame_ready,            \* Camera.frame_ready
    camera_lock,            \* Camera.lock: "" when free, else the thread holding it
    arrays,                 \* the numpy arrays allocated so far; an array is its index
    local_frame,            \* _capture_loop's local variable frame
    got,                    \* what get_frame returned to each consumer last
    pc,                     \* where each thread of the camera stands
    read_count,             \* frames read from the stream so far
    _stopped,               \* Camera._stopped
    should_stop,            \* WebServer.should_stop
    server_lock,            \* holder of WebServer.lock, "" when free
    copied_timestamps,      \* list(self.timestamps) of a get_history under way, or None
    exited,                 \* the process has left through os._exit
    late_iterations,        \* iterations each loop began after a stop flag was set
    in_flight,              \* the update under way in the analysis thread, or None
    capture_loops,          \* the capture threads started so far, oldest first
    switching,              \* switch_camera stands between its stop() and its start()
    is_stream_from_file,    \* Camera.is_stream_from_file
    video_frame_count,      \* Camera.video_frame_count
    current_frame_idx,      \* Camera.current_frame_idx
    pause_callback,         \* Camera.pause_callback: None or the name of the method
    waiting                 \* the threads blocked in the acquire of a lock

analyzerVars ==
    <<hsv_history, timestamps, ref_stats, is_paused, current_mask, current_ellipse,
      inner_ellipse, ellipse_score, is_ellipse_enabled, is_mask_frozen,
      current_smoothed_stats, current_profile, is_threshold_exceeded,
      derivative_smoothing, smoothing_window_size>>

processorVars == <<prev_ellipse, prev_mask, alpha, ellipse_margin>>

cameraVars ==
    <<camera_frame, frame_ready, camera_lock, arrays, local_frame, got, pc,
      read_count>>

\* the stop flags, the web server's lock and the threads of main and server
threadVars ==
    <<_stopped, should_stop, server_lock, copied_timestamps, exited, late_iterations,
      in_flight, capture_loops, switching, is_stream_from_file, video_frame_count,
      current_frame_idx, pause_callback, waiting>>

\* the update under way, the capture threads and the video stream
sessionVars ==
    <<in_flight, capture_loops, switching, is_stream_from_file, video_frame_count,
      current_frame_idx, pause_callback, waiting>>

\* what a call of the analyzer alone leaves as it is
outside == <<cameraVars, threadVars>>

vars ==
    <<analyzerVars, processorVars, call, ret, raised, frame_count, cameraVars,
      threadVars>>

\* HSVAnalyzer.decay_alpha = 0.05
decay_alpha == <<1, 20>>

Call(op, arg) == [op |-> op, arg |-> arg]

\* the capture thread started by Camera.start
Capture == "_capture_loop"

\* the threads that call Camera.get_frame: main.analysis_loop and the web
\* server's frame display
Consumers == {"analysis_loop", "show_frame"}

\* the two loops that main starts: the capture loop and main.analysis_loop
Loops == {Capture, "analysis_loop"}

\* a numpy array holding the frame read as number n from the stream; drawn
\* when an overlay was drawn into it
Array(n, drawn) == [captured |-> n, drawn |-> drawn]

\* Camera.__init__
camera_init ==
    /\ camera_frame = None
    /\ frame_ready = FALSE
    /\ camera_lock = ""
    /\ arrays = << >>
    /\ local_frame = None
    /\ got = [c \in Consumers |-> None]
    /\ pc = [t \in Consumers \cup {Capture} |-> IF t = Capture THEN "read" ELSE "idle"]
    /\ read_count = 0

\* WebServer.__init__ and the loops that main starts
thread_init ==
    /\ _stopped = FALSE
    /\ should_stop = FALSE
    /\ server_lock = ""
    /\ copied_timestamps = None
    /\ exited = FALSE
    /\ late_iterations = [t \in Loops |-> 0]

\* no update under way, the capture thread that main starts, no switch of the
\* camera under way and no thread blocked
idle_init ==
    /\ in_flight = None
    /\ capture_loops = <<[at |-> "test", stored |-> 0]>>
    /\ switching = FALSE
    /\ waiting = {}

\* the video attributes of Camera.__init__
video_init ==
    /\ is_stream_from_file = FALSE
    /\ video_frame_count = -1
    /\ current_frame_idx = 0
    /\ pause_callback = None

\* HSVAnalyzer.__init__ and ImageProcessor.__init__, with the given profile
analyzer_init(profile) ==
    /\ hsv_history = << >>
    /\ timestamps = << >>
    /\ ref_stats = None
    /\ is_paused = FALSE
    /\ current_mask = None
    /\ current_ellipse = None
    /\ inner_ellipse = None
    /\ ellipse_score = None
    /\ is_ellipse_enabled = TRUE
    /\ is_mask_frozen = FALSE
    /\ current_smoothed_stats = None
    /\ current_profile = profile
    /\ is_threshold_exceeded = FALSE
    /\ derivative_smoothing = FALSE
    /\ smoothing_window_size = 5
    /\ prev_ellipse = None
    /\ prev_mask = None
    /\ alpha = <<3, 5>>
    /\ ellipse_margin = <<1, 10>>
    /\ call = Call("__init__", None)
    /\ ret = None
    /\ raised = ""
    /\ frame_count = 0

\* HSVAnalyzer.__init__, ImageProcessor.__init__, Camera.__init__ and
\* WebServer.__init__, with the given profile
InitWith(profile) ==
    /\ camera_init
    /\ thread_init
    /\ idle_init
    /\ video_init
    /\ analyzer_init(profile)

Init == InitWith(None)

\* ------------------------------------------------------------------------
\* HSVAnalyzer: configuration and toggles
\* ------------------------------------------------------------------------

set_derivative_smoothing(enable, window_size) ==
    /\ derivative_smoothing' = enable
    /\ smoothing_window_size' = window_size
    /\ call' = Call("set_derivative_smoothing", <<enable, window_size>>)
    /\ ret' = None
    /\ raised' = ""
    /\ UNCHANGED <<hsv_history, timestamps, ref_stats, is_paused, current_mask,
                   current_ellipse, inner_ellipse, ellipse_score, is_ellipse_enabled,
                   is_mask_frozen, current_smoothed_stats, current_profile,
                   is_threshold_exceeded, processorVars, frame_count>>

\* profile.name of a None profile raises after the assignment
set_profile(profile) ==
    /\ current_profile' = profile
    /\ call' = Call("set_profile", profile)
    /\ ret' = None
    /\ raised' = IF profile = None THEN "AttributeError" ELSE ""
    /\ UNCHANGED <<hsv_history, timestamps, ref_stats, is_paused, current_mask,
                   current_ellipse, inner_ellipse, ellipse_score, is_ellipse_enabled,
                   is_mask_frozen, current_smoothed_stats, is_threshold_exceeded,
                   derivative_smoothing, smoothing_window_size, processorVars,
                   frame_count>>

\* a toggle_pause that flips whatever state is given
toggle_pause_ignoring_state(state) ==
    /\ is_paused' = ~is_paused
    /\ call' = Call("toggle_pause", state)
    /\ ret' = IF ~is_paused THEN "Resume" ELSE "Pause"
    /\ raised' = ""
    /\ UNCHANGED <<hsv_history, timestamps, ref_stats, current_mask,
                   current_ellipse, inner_ellipse, ellipse_score, is_ellipse_enabled,
                   is_mask_frozen, current_smoothed_stats, current_profile,
                   is_threshold_exceeded, derivative_smoothing, smoothing_window_size,
                   processorVars, frame_count>>

\* state is None or Some(bool)
toggle_pause(state) ==
    /\ is_paused' = IF state # None THEN state[1] ELSE ~is_paused
    /\ call' = Call("toggle_pause", state)
    /\ ret' = IF (IF state # None THEN state[1] ELSE ~is_paused) THEN "Resume" ELSE "Pause"
    /\ raised' = ""
    /\ UNCHANGED <<hsv_history, timestamps, ref_stats, current_mask,
                   current_ellipse, inner_ellipse, ellipse_score, is_ellipse_enabled,
                   is_mask_frozen, current_smoothed_stats, current_profile,
                   is_threshold_exceeded, derivative_smoothing, smoothing_window_size,
                   processorVars, frame_count>>

freeze_mask ==
    /\ is_mask_frozen' = ~is_mask_frozen
    /\ call' = Call("freeze_mask", None)
    /\ ret' = IF ~is_mask_frozen THEN "Unfreeze Mask" ELSE "Freeze Mask"
    /\ raised' = ""
    /\ UNCHANGED <<hsv_history, timestamps, ref_stats, is_paused, current_mask,
                   current_ellipse, inner_ellipse, ellipse_score, is_ellipse_enabled,
                   current_smoothed_stats, current_profile, is_threshold_exceeded,
                   derivative_smoothing, smoothing_window_size, processorVars,
                   frame_count>>

\* a switch that only stores the flag and keeps the mask and the ellipse
set_ellipse_masking_keeping_mask(value) ==
    /\ is_ellipse_enabled' = value
    /\ call' = Call("set_ellipse_masking", value)
    /\ ret' = None
    /\ raised' = ""
    /\ UNCHANGED <<hsv_history, timestamps, ref_stats, is_paused, current_mask,
                   current_ellipse, inner_ellipse, ellipse_score, is_mask_frozen,
                   current_smoothed_stats, current_profile, is_threshold_exceeded,
                   derivative_smoothing, smoothing_window_size, processorVars,
                   frame_count>>

set_ellipse_masking(value) ==
    /\ is_ellipse_enabled' = value
    /\ current_ellipse' = IF ~value THEN None ELSE current_ellipse
    /\ current_mask' = IF ~value THEN None ELSE current_mask
    /\ call' = Call("set_ellipse_masking", value)
    /\ ret' = None
    /\ raised' = ""
    /\ UNCHANGED <<hsv_history, timestamps, ref_stats, is_paused, inner_ellipse,
                   ellipse_score, is_mask_frozen, current_smoothed_stats,
                   current_profile, is_threshold_exceeded, derivative_smoothing,
                   smoothing_window_size, processorVars, frame_count>>

\* a direct call of the public check_thresholds
check_thresholds_call(stats) ==
    /\ call' = Call("check_thresholds", stats)
    /\ ret' = check_thresholds(current_profile, stats)
    /\ raised' = ""
    /\ UNCHANGED <<analyzerVars, processorVars, frame_count>>

\* ------------------------------------------------------------------------
\* HSVAnalyzer.set_reference, clear_history, update
\* ------------------------------------------------------------------------

\* a clear_history that leaves the list as it is
keep_history(history) == history

\* clear_history: self.hsv_history.clear()
clear_history(history) == << >>

\* the analyzer's mask and ellipse fields when the tracker is not called
untracked(mask, ellipse) ==
    [mask |-> mask, ellipse |-> ellipse, inner |-> inner_ellipse,
     score |-> ellipse_score, prev_ellipse |-> prev_ellipse,
     prev_mask |-> prev_mask]

\* the assignments of the tracker's outcome to the analyzer and the processor
store_tracking(found) ==
    /\ current_mask' = found.mask
    /\ current_ellipse' = found.ellipse
    /\ inner_ellipse' = found.inner
    /\ ellipse_score' = found.score
    /\ prev_ellipse' = found.prev_ellipse
    /\ prev_mask' = found.prev_mask

\* set_reference from the statistics on: found is the outcome of the branch
\* on is_ellipse_enabled and is_mask_frozen
set_reference_stats(f, found) ==
    /\ frame_count' = frame_count + 1
    /\ store_tracking(found)
    /\ ref_stats' = Some(get_hsv_stats(to_hsv(Frames[f]), found.mask))
    /\ hsv_history' = clear_history(hsv_history)
    /\ call' = Call("set_reference", f)
    /\ ret' = None
    /\ raised' = ""
    /\ UNCHANGED <<timestamps, is_paused, is_ellipse_enabled, is_mask_frozen,
                   current_smoothed_stats, current_profile, is_threshold_exceeded,
                   derivative_smoothing, smoothing_window_size, alpha,
                   ellipse_margin>>

set_reference(f) ==
    set_reference_stats(f,
        IF is_ellipse_enabled
        THEN IF ~is_mask_frozen
             THEN mask_ellipse_contour(Frames[f], prev_ellipse, prev_mask, alpha,
                                       ellipse_margin)
             ELSE untracked(current_mask, current_ellipse)
        ELSE untracked(None, None))

\* the measured mean taken as it is, the reference forgotten
absolute(hsv_stats, ref, ch) == hsv_stats[ch]

\* hsv_stats['h_m'] - self.ref_stats['h_m'], for the channel mean ch
relative(hsv_stats, ref, ch) == RSub(hsv_stats[ch], ref[ch])

\* the decay filter started from 0 on an empty history
decay_from_zero(relative_value, history, ch) ==
    RAdd(RMul(decay_alpha, relative_value),
         RMul(RSub(Q(1), decay_alpha),
              IF history # << >> THEN Last(history)[ch] ELSE Q(0)))

\* the decay filter with its two weights exchanged
decay_weights_swapped(relative_value, history, ch) ==
    RAdd(RMul(RSub(Q(1), decay_alpha), relative_value),
         RMul(decay_alpha,
              IF history # << >> THEN Last(history)[ch] ELSE relative_value))

\* the decay of one channel: alpha * relative + (1 - alpha) * previous decay,
\* the previous decay being the relative value itself on an empty history
decay_of(relative_value, history, ch) ==
    RAdd(RMul(decay_alpha, relative_value),
         RMul(RSub(Q(1), decay_alpha),
              IF history # << >> THEN Last(history)[ch] ELSE relative_value))

\* the second derivative taken whatever the previous first derivative is
second_derivative_unguarded(d, prev_d) == RSub(d, prev_d)

\* "dh - prev.dh if prev.dh != 0.0 else 0.0"
second_derivative(d, prev_d) ==
    IF RNe(prev_d, Q(0)) THEN RSub(d, prev_d) ELSE Q(0)

\* the HSVStats that update appends for the measured hsv_stats
relative_stats_of(hsv_stats, ref, history) ==
    LET h_m == relative(hsv_stats, ref, "h_m")
        s_m == relative(hsv_stats, ref, "s_m")
        v_m == relative(hsv_stats, ref, "v_m")
        h_decay == decay_of(h_m, history, "h_decay")
        s_decay == decay_of(s_m, history, "s_decay")
        v_decay == decay_of(v_m, history, "v_decay")
        some == history # << >>
        prev == Last(history)
        dh == IF some THEN RSub(h_decay, prev.h_decay) ELSE Q(0)
        ds == IF some THEN RSub(s_decay, prev.s_decay) ELSE Q(0)
        dv == IF some THEN RSub(v_decay, prev.v_decay) ELSE Q(0)
        ddh == IF some THEN second_derivative(dh, prev.dh) ELSE Q(0)
        dds == IF some THEN second_derivative(ds, prev.ds) ELSE Q(0)
        ddv == IF some THEN second_derivative(dv, prev.dv) ELSE Q(0)
    IN  HSVStats(h_m, s_m, v_m, h_decay, s_decay, v_decay, dh, ds, dv, ddh, dds, ddv)

\* the new sample written over the last one
overwrite_sample(history, relative_stats) ==
    IF history = << >> THEN <<relative_stats>>
    ELSE [history EXCEPT ![Len(history)] = relative_stats]

\* self.hsv_history.append(relative_stats)
append_sample(history, relative_stats) == Append(history, relative_stats)

\* datetime.now() as a logical clock: the number of samples ever recorded
now == Len(timestamps) + 1

\* an update that goes on while paused
never_returns_early(paused) == FALSE

\* "if self.is_paused: return"
returns_early(paused) == paused

\* a tracker that also runs while the mask is frozen
detects_when_frozen == is_ellipse_enabled

\* "if self.is_ellipse_enabled and not self.is_mask_frozen"
detects == is_ellipse_enabled /\ ~is_mask_frozen

\* update from the reference check on: hsv_stats are the measured means
update_record(found, hsv_stats, ref) ==
    /\ frame_count' = frame_count + 1
    /\ store_tracking(found)
    /\ ref_stats' = Some(ref)
    /\ hsv_history' =
           append_sample(hsv_history, relative_stats_of(hsv_stats, ref, hsv_history))
    /\ timestamps' = Append(timestamps, now)
    /\ UNCHANGED <<is_paused, is_ellipse_enabled, is_mask_frozen,
                   current_smoothed_stats, current_profile,
                   is_threshold_exceeded, derivative_smoothing,
                   smoothing_window_size, alpha, ellipse_margin>>

\* an update that adopts its own measurement as the reference every time
update_stats_rebasing(found, hsv_stats) ==
    update_record(found, hsv_stats, hsv_stats)

\* "if self.ref_stats is None: self.ref_stats = hsv_stats"
update_stats(found, hsv_stats) ==
    update_record(found, hsv_stats,
                  IF ref_stats = None THEN hsv_stats ELSE ref_stats[1])

\* update from the statistics on: found is the outcome of the branch on
\* is_ellipse_enabled and is_mask_frozen
update_tracked(f, found) ==
    update_stats(found, get_hsv_stats(to_hsv(Frames[f]), found.mask))

update(f) ==
    /\ call' = Call("update", f)
    /\ ret' = None
    /\ raised' = ""
    /\ IF returns_early(is_paused)
       THEN UNCHANGED <<analyzerVars, processorVars, frame_count>>
       ELSE update_tracked(f,
                IF detects
                THEN mask_ellipse_contour(Frames[f], prev_ellipse, prev_mask,
                                          alpha, ellipse_margin)
                ELSE untracked(current_mask, current_ellipse))

\* ------------------------------------------------------------------------
\* HSVAnalyzer._apply_sliding_window_smoothing, HSVAnalyzer.get_history
\* ------------------------------------------------------------------------

\* A series is a Python list or a numpy array of floats: [kind, items].
PyList(items) == [kind |-> "list", items |-> items]

NdArray(items) == [kind |-> "ndarray", items |-> items]

\* np.pad(data, k, mode='edge')
pad_edge(data, k) ==
    List([i \in 1..(Len(data) + 2 * k) |->
            IF i <= k THEN data[1]
            ELSE IF i > k + Len(data) THEN data[Len(data)]
            ELSE data[i - k]])

\* np.convolve(padded, np.ones(w) / w, mode='valid') for len(padded) >= w:
\* the mean of every window of w consecutive elements
convolve_valid(padded, w) ==
    List([k \in 1..(Len(padded) - w + 1) |->
            RMul(RSum(SubSeq(padded, k, k + w - 1)), <<1, w>>)])

\* returns data itself when it is shorter than the window, smoothed.tolist()
\* otherwise
_apply_sliding_window_smoothing(data, window_size) ==
    IF Len(data.items) < window_size THEN data
    ELSE PyList(convolve_valid(pad_edge(data.items, window_size \div 2), window_size))

\* np.diff(x, prepend=x[0])
diff_prepend(x) ==
    List([i \in 1..Len(x) |-> IF i = 1 THEN RSub(x[1], x[1]) ELSE RSub(x[i], x[i - 1])])

\* the first/second derivative step of the pipeline for one channel: np.diff
\* of a series of two or more elements, a list of zeros otherwise
derivative(series) ==
    IF Len(series.items) >= 2 THEN NdArray(diff_prepend(series.items))
    ELSE PyList(List([i \in 1..Len(series.items) |-> Q(0)]))

Series(history, ch) == List([i \in 1..Len(history) |-> history[i][ch]])

\* the smoothing pipeline of one channel: the smoothed decay series, the
\* smoothed first derivative and the smoothed second derivative
pipeline(decay, window) ==
    LET smoothed_decay == _apply_sliding_window_smoothing(NdArray(decay), window)
        d_smoothed == derivative(smoothed_decay)
        smoothed_d == IF Len(d_smoothed.items) > 0
                      THEN _apply_sliding_window_smoothing(d_smoothed, window * 2)
                      ELSE d_smoothed
        dd_smoothed == derivative(smoothed_d)
        final_dd == IF Len(dd_smoothed.items) > 0
                    THEN _apply_sliding_window_smoothing(dd_smoothed, window * 4)
                    ELSE dd_smoothed
    IN  <<smoothed_decay, smoothed_d, final_dd>>

\* the dictionary get_history builds, each entry a list or an array
history_dict(history, stamps, smoothing, window) ==
    LET smooth == smoothing /\ Len(history) > 0
        H == pipeline(Series(history, "h_decay"), window)
        S == pipeline(Series(history, "s_decay"), window)
        V == pipeline(Series(history, "v_decay"), window)
    IN  [timestamps |-> PyList(stamps),
         h_means |-> PyList(Series(history, "h_m")),
         s_means |-> PyList(Series(history, "s_m")),
         v_means |-> PyList(Series(history, "v_m")),
         h_decay |-> IF smooth THEN H[1] ELSE PyList(Series(history, "h_decay")),
         s_decay |-> IF smooth THEN S[1] ELSE PyList(Series(history, "s_decay")),
         v_decay |-> IF smooth THEN V[1] ELSE PyList(Series(history, "v_decay")),
         dH |-> IF smooth THEN H[2] ELSE PyList(Series(history, "dh")),
         dS |-> IF smooth THEN S[2] ELSE PyList(Series(history, "ds")),
         dV |-> IF smooth THEN V[2] ELSE PyList(Series(history, "dv")),
         ddH |-> IF smooth THEN H[3] ELSE PyList(Series(history, "ddh")),
         ddS |-> IF smooth THEN S[3] ELSE PyList(Series(history, "dds")),
         ddV |-> IF smooth THEN V[3] ELSE PyList(Series(history, "ddv"))]

\* the keys of the dictionary whose last entries make current_smoothed_stats
StatsKeys ==
    {"h_means", "s_means", "v_means", "h_decay", "s_decay", "v_decay",
     "dH", "dS", "dV", "ddH", "ddS", "ddV"}

\* "x[-1] if x else 0.0" raises ValueError when x is an array of two or more
\* elements, whose truth value is ambiguous
truth_value_raises(series) == series.kind = "ndarray" /\ Len(series.items) >= 2

\* the first entry of a series taken where the last one is meant
FirstOr0(series) == IF series.items # << >> THEN series.items[1] ELSE Q(0)

\* "x[-1] if x else 0.0" when it does not raise: an empty series is false,
\* and so is an array whose only element is 0.0
LastOr0(series) == IF series.items # << >> THEN Last(series.items) ELSE Q(0)

\* the HSVStats built from the last entries of the dictionary
last_stats(history) ==
    HSVStats(LastOr0(history.h_means), LastOr0(history.s_means),
             LastOr0(history.v_means), LastOr0(history.h_decay),
             LastOr0(history.s_decay), LastOr0(history.v_decay),
             LastOr0(history.dH), LastOr0(history.dS), LastOr0(history.dV),
             LastOr0(history.ddH), LastOr0(history.ddS), LastOr0(history.ddV))

\* whether building current_smoothed_stats from the dictionary raises
stats_raise(history) == \E k \in StatsKeys : truth_value_raises(history[k])

\* a read with a hidden effect: the alarm flips on every exceeding read
\* instead of being assigned
return_history_flipping(history) ==
    LET fails == hsv_history # << >> /\ stats_raise(history)
    IN  /\ call' = Call("get_history", None)
        /\ ret' = IF fails THEN None ELSE Some(history)
        /\ raised' = IF fails THEN "ValueError" ELSE ""
        /\ IF hsv_history # << >> /\ ~fails
           THEN /\ current_smoothed_stats' = Some(last_stats(history))
                /\ is_threshold_exceeded' =
                       (is_threshold_exceeded
                            # check_thresholds(current_profile, last_stats(history)))
           ELSE UNCHANGED <<current_smoothed_stats, is_threshold_exceeded>>
        /\ UNCHANGED <<timestamps, ref_stats, is_paused, current_mask,
                       current_ellipse, inner_ellipse, ellipse_score,
                       is_ellipse_enabled, is_mask_frozen, current_profile,
                       derivative_smoothing, smoothing_window_size, processorVars,
                       frame_count>>

\* get_history from the dictionary on: current_smoothed_stats is made from
\* its last entries (which raises on an ambiguous array), the thresholds are
\* checked and the dictionary is returned
return_history(history) ==
    LET fails == hsv_history # << >> /\ stats_raise(history)
    IN  /\ call' = Call("get_history", None)
        /\ ret' = IF fails THEN None ELSE Some(history)
        /\ raised' = IF fails THEN "ValueError" ELSE ""
        /\ IF hsv_history # << >> /\ ~fails
           THEN /\ current_smoothed_stats' = Some(last_stats(history))
                /\ is_threshold_exceeded' =
                       check_thresholds(current_profile, last_stats(history))
           ELSE UNCHANGED <<current_smoothed_stats, is_threshold_exceeded>>
        /\ UNCHANGED <<timestamps, ref_stats, is_paused, current_mask,
                       current_ellipse, inner_ellipse, ellipse_score,
                       is_ellipse_enabled, is_mask_frozen, current_profile,
                       derivative_smoothing, smoothing_window_size, processorVars,
                       frame_count>>

\* a get_history that empties the stored list once it has read it
get_history_draining ==
    /\ return_history(history_dict(hsv_history, timestamps, derivative_smoothing,
                                   smoothing_window_size))
    /\ hsv_history' = << >>

get_history ==
    /\ return_history(history_dict(hsv_history, timestamps, derivative_smoothing,
                                   smoothing_window_size))
    /\ UNCHANGED hsv_history

\* ------------------------------------------------------------------------
\* Camera._capture_loop and Camera.get_frame
\* ------------------------------------------------------------------------

\* what the threads of the camera leave alone
analyzerSide == <<analyzerVars, processorVars, call, ret, raised, frame_count>>

\* "while not self._stopped:" found true, then
\* "ret, frame = self.stream.read()": a new array with the next frame of the
\* stream, or nothing read
capture_read(ok) ==
    /\ pc[Capture] = "read"
    /\ ~_stopped
    /\ IF ok
       THEN /\ read_count' = read_count + 1
            /\ arrays' = Append(arrays, Array(read_count + 1, FALSE))
            /\ local_frame' = Some(Len(arrays) + 1)
            /\ pc' = [pc EXCEPT ![Capture] = "acquire"]
       ELSE UNCHANGED <<read_count, arrays, local_frame, pc>>
    /\ UNCHANGED <<camera_frame, frame_ready, camera_lock, got, analyzerSide>>

\* "with self.lock:" in the capture loop
capture_acquire ==
    /\ pc[Capture] = "acquire"
    /\ camera_lock = ""
    /\ camera_lock' = Capture
    /\ pc' = [pc EXCEPT ![Capture] = "store"]
    /\ UNCHANGED <<camera_frame, frame_ready, arrays, local_frame, got, read_count,
                   analyzerSide>>

\* "self.frame = frame"
capture_store ==
    /\ pc[Capture] = "store"
    /\ camera_frame' = local_frame
    /\ pc' = [pc EXCEPT ![Capture] = "ready"]
    /\ UNCHANGED <<frame_ready, camera_lock, arrays, local_frame, got, read_count,
                   analyzerSide>>

\* "self.frame_ready = True" and the end of the with block
capture_release ==
    /\ pc[Capture] = "ready"
    /\ frame_ready' = TRUE
    /\ camera_lock' = ""
    /\ pc' = [pc EXCEPT ![Capture] = "read"]
    /\ UNCHANGED <<camera_frame, arrays, local_frame, got, read_count, analyzerSide>>

\* "with self.lock:" in get_frame, called by consumer c
get_frame_acquire(c) ==
    /\ pc[c] = "idle"
    /\ camera_lock = ""
    /\ camera_lock' = c
    /\ pc' = [pc EXCEPT ![c] = "copy"]
    /\ UNCHANGED <<camera_frame, frame_ready, arrays, local_frame, got, read_count,
                   analyzerSide>>

\* a get_frame that hands out the stored array itself
get_frame_alias(c) ==
    /\ pc[c] = "copy"
    /\ got' = [got EXCEPT ![c] = camera_frame]
    /\ camera_lock' = ""
    /\ pc' = [pc EXCEPT ![c] = "use"]
    /\ UNCHANGED <<camera_frame, frame_ready, arrays, local_frame, read_count,
                   analyzerSide>>

\* "return self.frame.copy() if self.frame is not None else None" and the end
\* of the with block
get_frame_copy(c) ==
    /\ pc[c] = "copy"
    /\ IF camera_frame # None
       THEN /\ arrays' = Append(arrays, arrays[camera_frame[1]])
            /\ got' = [got EXCEPT ![c] = Some(Len(arrays) + 1)]
       ELSE /\ got' = [got EXCEPT ![c] = None]
            /\ UNCHANGED arrays
    /\ camera_lock' = ""
    /\ pc' = [pc EXCEPT ![c] = "use"]
    /\ UNCHANGED <<camera_frame, frame_ready, local_frame, read_count, analyzerSide>>

\* what the consumer does with the frame it got: the web server draws the
\* ellipses and the score into it, the analysis loop only reads it
use_frame(c) ==
    /\ pc[c] = "use"
    /\ arrays' = IF c = "show_frame" /\ got[c] # None
                 THEN [arrays EXCEPT ![got[c][1]].drawn = TRUE]
                 ELSE arrays
    /\ pc' = [pc EXCEPT ![c] = "idle"]
    /\ UNCHANGED <<camera_frame, frame_ready, camera_lock, local_frame, got,
                   read_count, analyzerSide>>

\* the capture loop and the consumers running concurrently, for at most
\* MaxCaptures frames of the stream and MaxCopies copies handed out
NextCamera ==
    \/ \E ok \in BOOLEAN :
          read_count < MaxCaptures /\ capture_read(ok) /\ UNCHANGED threadVars
    \/ capture_acquire /\ UNCHANGED threadVars
    \/ capture_store /\ UNCHANGED threadVars
    \/ capture_release /\ UNCHANGED threadVars
    \/ \E c \in Consumers :
          /\ Len(arrays) - read_count < MaxCopies
          /\ get_frame_acquire(c)
          /\ UNCHANGED threadVars
    \/ \E c \in Consumers : get_frame_copy(c) /\ UNCHANGED threadVars
    \/ \E c \in Consumers : use_frame(c) /\ UNCHANGED threadVars

SpecCamera == Init /\ [][NextCamera]_vars

\* ------------------------------------------------------------------------
\* main.analysis_loop, WebServer.create_plots, Camera.stop, WebServer.shutdown
\* ------------------------------------------------------------------------

\* the content of the frame that the stream delivers as number n: the dish
\* of frame 1, then the empty scene of frame 3, and so on in turn
stream(n) == IF n % 2 = 1 THEN 1 ELSE 3

\* the camera variables that a step of the analysis loop after get_frame
\* leaves alone
slot == <<camera_frame, frame_ready, camera_lock, arrays, local_frame, got, read_count>>

\* one more iteration begun by loop t, counted once a stop flag is set
begun(t) ==
    late_iterations' =
        IF _stopped \/ should_stop
        THEN [late_iterations EXCEPT ![t] = late_iterations[t] + 1]
        ELSE late_iterations

\* "while not self._stopped:" found true and the stream read, in the capture
\* loop of a process with a web server
capture_iteration(ok) ==
    /\ capture_read(ok)
    /\ begun(Capture)
    /\ UNCHANGED <<_stopped, should_stop, server_lock, copied_timestamps, exited,
                   sessionVars>>

\* "while not self._stopped:" found false: the capture loop ends
capture_exit ==
    /\ pc[Capture] = "read"
    /\ _stopped
    /\ pc' = [pc EXCEPT ![Capture] = "done"]
    /\ UNCHANGED <<slot, analyzerSide, threadVars>>

\* "while True:" and "frame = camera.get_frame()" entered by the analysis loop
analysis_iteration ==
    /\ get_frame_acquire("analysis_loop")
    /\ begun("analysis_loop")
    /\ UNCHANGED <<_stopped, should_stop, server_lock, copied_timestamps, exited,
                   sessionVars>>

\* "if frame is not None: analyzer.update(frame)" and "time.sleep(0.1)"
analysis_update ==
    /\ pc["analysis_loop"] = "use"
    /\ IF got["analysis_loop"] # None
       THEN update(stream(arrays[got["analysis_loop"][1]].captured))
       ELSE UNCHANGED analyzerSide
    /\ pc' = [pc EXCEPT !["analysis_loop"] = "idle"]
    /\ UNCHANGED <<slot, threadVars>>

\* "with self.lock:" in create_plots and the first entry of the dictionary of
\* get_history, "'timestamps': list(self.timestamps)"
get_history_timestamps ==
    /\ server_lock = ""
    /\ server_lock' = "create_plots"
    /\ copied_timestamps' = Some(timestamps)
    /\ UNCHANGED <<_stopped, should_stop, exited, late_iterations, cameraVars,
                   analyzerSide, sessionVars>>

\* the twelve comprehensions over self.hsv_history, the rest of get_history
\* and the end of the with block of create_plots
get_history_values ==
    /\ server_lock = "create_plots"
    /\ return_history(history_dict(hsv_history, copied_timestamps[1],
                                   derivative_smoothing, smoothing_window_size))
    /\ UNCHANGED hsv_history
    /\ server_lock' = ""
    /\ copied_timestamps' = None
    /\ UNCHANGED <<_stopped, should_stop, exited, late_iterations, cameraVars,
                   sessionVars>>

\* Camera.stop: "self._stopped = True" and "self.frame_ready = False"
stop ==
    /\ _stopped' = TRUE
    /\ frame_ready' = FALSE
    /\ UNCHANGED <<camera_frame, camera_lock, arrays, local_frame, got, pc,
                   read_count, should_stop, server_lock, copied_timestamps, exited,
                   late_iterations, analyzerSide, sessionVars>>

\* WebServer.shutdown: "self.should_stop = True"
shutdown ==
    /\ ~should_stop
    /\ should_stop' = TRUE
    /\ UNCHANGED <<_stopped, server_lock, copied_timestamps, exited, late_iterations,
                   cameraVars, analyzerSide, sessionVars>>

\* WebServer.shutdown after "time.sleep(0.5)": "os._exit(0)" ends the process
\* and every thread of it wherever it stands
shutdown_exit ==
    /\ should_stop
    /\ ~exited
    /\ exited' = TRUE
    /\ pc' = [t \in DOMAIN pc |-> "done"]
    /\ UNCHANGED <<_stopped, should_stop, server_lock, copied_timestamps,
                   late_iterations, slot, analyzerSide, sessionVars>>

\* the steps of the capture loop after the read
capture_steps ==
    \/ capture_acquire /\ UNCHANGED threadVars
    \/ capture_store /\ UNCHANGED threadVars
    \/ capture_release /\ UNCHANGED threadVars

\* the capture loop, the analysis loop and a plot refresh of the web server
\* running concurrently
NextThreads ==
    \/ \E ok \in BOOLEAN : read_count < MaxCaptures /\ capture_iteration(ok)
    \/ capture_steps
    \/ Len(arrays) - read_count < MaxCopies /\ analysis_iteration
    \/ get_frame_copy("analysis_loop") /\ UNCHANGED threadVars
    \/ analysis_update
    \/ get_history_timestamps
    \/ get_history_values

SpecThreads == Init /\ [][NextThreads]_vars

\* the two loops running while the camera is stopped or the server shut down
NextStop ==
    \/ \E ok \in BOOLEAN :
          /\ read_count < MaxCaptures
          /\ late_iterations[Capture] < MaxLate
          /\ capture_iteration(ok)
    \/ capture_steps
    \/ capture_exit
    \/ /\ Len(arrays) - read_count < MaxCopies
       /\ late_iterations["analysis_loop"] < MaxLate
       /\ analysis_iteration
    \/ get_frame_copy("analysis_loop") /\ UNCHANGED threadVars
    \/ analysis_update
    \/ ~_stopped /\ ~exited /\ stop
    \/ ~exited /\ shutdown
    \/ shutdown_exit

SpecStop == Init /\ [][NextStop]_vars

\* ------------------------------------------------------------------------
\* The analyzer driven sequentially by its caller
\* ------------------------------------------------------------------------

\* the frame source delivers at most max frames to an analyzer that reads them
Delivers(max) == is_paused \/ frame_count < max

\* the tick of main.analysis_loop with a frame in the slot
Tick(frames, max) ==
    \E f \in frames : Delivers(max) /\ update(f) /\ UNCHANGED outside

\* WebServer.set_new_reference with a frame in the slot
NewReference(frames, max) ==
    \E f \in frames : frame_count < max /\ set_reference(f) /\ UNCHANGED outside

\* every operation of the analyzer, called sequentially in any order
Next ==
    \/ Tick(TrackFrames, MaxFrames)
    \/ NewReference(ReferenceFrames, MaxFrames)
    \/ \E state \in {None, Some(TRUE), Some(FALSE)} :
          toggle_pause(state) /\ UNCHANGED outside
    \/ freeze_mask /\ UNCHANGED outside
    \/ \E value \in BOOLEAN : set_ellipse_masking(value) /\ UNCHANGED outside
    \/ \E p \in Profiles : set_profile(p) /\ UNCHANGED outside
    \/ \E a \in DefaultSmoothingArgs :
          set_derivative_smoothing(a[1], a[2]) /\ UNCHANGED outside
    \/ get_history /\ UNCHANGED outside

Spec == Init /\ [][Next]_vars

\* the signal chain: frames analysed against a reference and read back, with
\* the analyzer running and the tracker left enabled and unfrozen
NextSignal ==
    \/ Tick(DishFrames, MaxSamples)
    \/ NewReference(ReferenceFrames, MaxSamples)
    \/ \E p \in Profiles \ {None} : set_profile(p) /\ UNCHANGED outside
    \/ \E a \in SmoothingArgs :
          set_derivative_smoothing(a[1], a[2]) /\ UNCHANGED outside
    \/ get_history /\ UNCHANGED outside

SpecSignal == Init /\ [][NextSignal]_vars

\* the analyzer fed with a frame whose ellipse lies outside the frame
NextEmptyMask ==
    \/ Tick(OffFrames, MaxFrames)
    \/ NewReference(OffFrames, MaxFrames)
    \/ freeze_mask /\ UNCHANGED outside
    \/ \E p \in Profiles : set_profile(p) /\ UNCHANGED outside
    \/ get_history /\ UNCHANGED outside

SpecEmptyMask == Init /\ [][NextEmptyMask]_vars

\* check_thresholds applied to every stats record under every profile
InitThresholds == \E p \in ThresholdProfiles : InitWith(p)

NextThresholds ==
    \E stats \in ThresholdStats : check_thresholds_call(stats) /\ UNCHANGED outside

SpecThresholds == InitThresholds /\ [][NextThresholds]_vars

\* the tracker choosing among the contours of a frame, on updates and on
\* new references
NextSelection ==
    \/ Tick(SelectionFrames, MaxSamples)
    \/ NewReference(SelectionFrames, MaxSamples)
    \/ freeze_mask /\ UNCHANGED outside

SpecSelection == Init /\ [][NextSelection]_vars

\* "self.analyzer.processor.__setattr__('alpha', x)" of the web page
set_alpha(x) ==
    /\ alpha' = x
    /\ call' = Call("__setattr__", x)
    /\ ret' = None
    /\ raised' = ""
    /\ UNCHANGED <<analyzerVars, prev_ellipse, prev_mask, ellipse_margin, frame_count>>

\* a direct call of blend_ellipses
blend_ellipses_call(current, previous) ==
    /\ call' = Call("blend_ellipses", <<current, previous>>)
    /\ ret' = blend_ellipses(current, previous, alpha)
    /\ raised' = ""
    /\ UNCHANGED <<analyzerVars, processorVars, frame_count>>

\* blend_ellipses applied to every pair of angles under every smoothing factor
NextBlend ==
    \/ \E x \in Alphas : set_alpha(x) /\ UNCHANGED outside
    \/ \E c \in Angles, p \in Angles :
          blend_ellipses_call(Turned(c), Turned(p)) /\ UNCHANGED outside

SpecBlend == Init /\ [][NextBlend]_vars

\* the history begins with the sample of the baseline scene itself, adopted
\* as the reference by the first update: the decay starts from 0 and rises
Rising == hsv_history # << >> /\ hsv_history[1].h_m = Q(0)

\* the baseline scene taken as the reference, by set_reference or by the
\* first update, and the other scene measured again and again, the history
\* being read at any time; a rising decay is followed for MaxRise measurements
NextRepeated ==
    \/ frame_count = 0 /\ set_reference(BaselineFrame) /\ UNCHANGED outside
    \/ frame_count = 0 /\ update(BaselineFrame) /\ UNCHANGED outside
    \/ /\ ref_stats # None
       /\ Len(hsv_history) < (IF Rising THEN 1 + MaxRise ELSE MaxRepeats)
       /\ update(RepeatedFrame)
       /\ UNCHANGED outside
    \/ \E p \in DecayProfiles : set_profile(p) /\ UNCHANGED outside
    \/ get_history /\ UNCHANGED outside

SpecRepeated == Init /\ [][NextRepeated]_vars

\* ------------------------------------------------------------------------
\* HSVAnalyzer.update running in the analysis thread while the web server
\* calls the analyzer
\* ------------------------------------------------------------------------

\* what a step of an update under way leaves alone outside the analyzer
besides_update ==
    <<cameraVars, _stopped, should_stop, server_lock, copied_timestamps, exited,
      late_iterations, capture_loops, switching, is_stream_from_file,
      video_frame_count, current_frame_idx, pause_callback, waiting>>

\* the update under way stands at the given place
at(place) == in_flight # None /\ in_flight[1].at = place

\* update up to the call of the tracker: the test of is_paused, the test of
\* is_ellipse_enabled and is_mask_frozen, and mask_ellipse_contour(frame),
\* which stores the processor's previous ellipse and mask and returns a tuple
\* not yet assigned
update_detect(f, found) ==
    /\ in_flight = None
    /\ call' = Call("update", f)
    /\ ret' = None
    /\ raised' = ""
    /\ in_flight' = IF returns_early(is_paused)
                    THEN None
                    ELSE Some([at |-> "detected", f |-> f,
                               found |-> IF detects THEN Some(found) ELSE None])
    /\ prev_ellipse' = IF ~returns_early(is_paused) /\ detects
                       THEN found.prev_ellipse ELSE prev_ellipse
    /\ prev_mask' = IF ~returns_early(is_paused) /\ detects
                    THEN found.prev_mask ELSE prev_mask
    /\ UNCHANGED <<analyzerVars, alpha, ellipse_margin, frame_count, besides_update>>

\* "self.current_mask, self.current_ellipse, self.inner_ellipse,
\* self.ellipse_score = ...": the tuple of the tracker assigned, when the
\* tracker was called
update_store(found) ==
    IF found # None
    THEN /\ current_mask' = found[1].mask
         /\ current_ellipse' = found[1].ellipse
         /\ inner_ellipse' = found[1].inner
         /\ ellipse_score' = found[1].score
    ELSE UNCHANGED <<current_mask, current_ellipse, inner_ellipse, ellipse_score>>

\* the assignment of the tracker's tuple and
\* "hsv_stats = self.processor.get_hsv_stats(hsv_frame, self.current_mask)"
update_measure ==
    /\ at("detected")
    /\ update_store(in_flight[1].found)
    /\ in_flight' = Some([at |-> "measured", f |-> in_flight[1].f,
                          hsv_stats |-> get_hsv_stats(to_hsv(Frames[in_flight[1].f]),
                                                      current_mask')])
    /\ UNCHANGED <<hsv_history, timestamps, ref_stats, is_paused, is_ellipse_enabled,
                   is_mask_frozen, current_smoothed_stats, current_profile,
                   is_threshold_exceeded, derivative_smoothing,
                   smoothing_window_size, processorVars, call, ret, raised,
                   frame_count, besides_update>>

\* "if self.ref_stats is None: self.ref_stats = hsv_stats" and the test
\* "if self.hsv_history" of the first conditional expression
update_test ==
    /\ at("measured")
    /\ ref_stats' = IF ref_stats = None THEN Some(in_flight[1].hsv_stats) ELSE ref_stats
    /\ in_flight' = Some([at |-> "tested", f |-> in_flight[1].f,
                          hsv_stats |-> in_flight[1].hsv_stats,
                          some |-> hsv_history # << >>])
    /\ UNCHANGED <<hsv_history, timestamps, is_paused, current_mask, current_ellipse,
                   inner_ellipse, ellipse_score, is_ellipse_enabled, is_mask_frozen,
                   current_smoothed_stats, current_profile, is_threshold_exceeded,
                   derivative_smoothing, smoothing_window_size, processorVars, call,
                   ret, raised, frame_count, besides_update>>

\* "self.hsv_history[-1]" after the test found the list non-empty: IndexError
\* on a list emptied since, which ends the analysis thread
update_raise ==
    /\ raised' = "IndexError"
    /\ in_flight' = Some([at |-> "raised", f |-> in_flight[1].f])
    /\ UNCHANGED <<analyzerVars, processorVars, call, ret, frame_count>>

\* the rest of update: the decay values, the derivatives and the two appends
update_append ==
    /\ hsv_history' =
           append_sample(hsv_history,
                         relative_stats_of(in_flight[1].hsv_stats, ref_stats[1],
                                           hsv_history))
    /\ timestamps' = Append(timestamps, now)
    /\ frame_count' = frame_count + 1
    /\ in_flight' = None
    /\ UNCHANGED <<ref_stats, is_paused, current_mask, current_ellipse,
                   inner_ellipse, ellipse_score, is_ellipse_enabled, is_mask_frozen,
                   current_smoothed_stats, current_profile, is_threshold_exceeded,
                   derivative_smoothing, smoothing_window_size, processorVars, call,
                   ret, raised>>

\* update from the first read of self.hsv_history[-1] on
update_record_read ==
    /\ at("tested")
    /\ IF in_flight[1].some /\ hsv_history = << >>
       THEN update_raise
       ELSE update_append
    /\ UNCHANGED besides_update

\* the web server's call of set_reference, made while no update or between
\* two steps of an update
set_new_reference(f) == set_reference(f) /\ UNCHANGED outside

\* the web server's call of set_ellipse_masking
set_ellipse_fitting(value) == set_ellipse_masking(value) /\ UNCHANGED outside

\* the analysis thread running update on the frames of the stream while the
\* web server sets references and switches the tracker on and off
NextInterleaved ==
    \/ \E f \in TrackFrames :
          /\ Delivers(MaxFrames)
          /\ update_detect(f, mask_ellipse_contour(Frames[f], prev_ellipse, prev_mask,
                                                   alpha, ellipse_margin))
    \/ update_measure
    \/ update_test
    \/ update_record_read
    \/ \E f \in ReferenceFrames : frame_count < MaxFrames /\ set_new_reference(f)
    \/ \E value \in BOOLEAN : set_ellipse_fitting(value)
    \/ \E state \in {None} : toggle_pause(state) /\ UNCHANGED outside

SpecInterleaved == Init /\ [][NextInterleaved]_vars

\* ------------------------------------------------------------------------
\* Camera.start, Camera.stop, Camera.switch_camera and the capture threads
\* ------------------------------------------------------------------------

\* what the camera switch and the capture threads leave alone
besides_switch ==
    <<camera_frame, camera_lock, arrays, local_frame, got, pc, read_count,
      should_stop, server_lock, copied_timestamps, exited, late_iterations,
      in_flight, is_stream_from_file, video_frame_count, current_frame_idx,
      pause_callback, waiting, analyzerVars, processorVars, ret, frame_count>>

\* a capture thread as Thread(target=self._capture_loop).start() leaves it:
\* about to test "while not self._stopped", no frame stored yet
started_loop == [at |-> "test", stored |-> 0]

\* switch_camera up to the end of "self.stop()": the flag set, no thread joined
switch_camera_stop ==
    /\ ~switching
    /\ Len(capture_loops) < MaxLoops
    /\ switching' = TRUE
    /\ _stopped' = TRUE
    /\ frame_ready' = FALSE
    /\ call' = Call("switch_camera", None)
    /\ raised' = ""
    /\ UNCHANGED <<capture_loops, besides_switch>>

\* the rest of switch_camera, "self.start()": the flag cleared first, then a
\* new capture thread started unless the device fails to open
switch_camera_start(opened) ==
    /\ switching
    /\ switching' = FALSE
    /\ _stopped' = FALSE
    /\ capture_loops' = IF opened THEN Append(capture_loops, started_loop)
                        ELSE capture_loops
    /\ raised' = IF opened THEN "" ELSE "RuntimeError"
    /\ UNCHANGED <<frame_ready, call, besides_switch>>

\* "while not self._stopped:" evaluated by capture thread i
loop_test(i) ==
    /\ capture_loops[i].at = "test"
    /\ capture_loops' =
           [capture_loops EXCEPT ![i].at = IF _stopped THEN "done" ELSE "read"]
    /\ UNCHANGED <<_stopped, frame_ready, switching, call, raised, besides_switch>>

\* the body of the loop run by capture thread i: a frame read and, when one
\* was read, written to the slot with frame_ready set; then time.sleep(0.03)
loop_iteration(i, ok) ==
    /\ capture_loops[i].at = "read"
    /\ capture_loops' =
           [capture_loops EXCEPT ![i] =
               [at |-> "test", stored |-> IF ok THEN @.stored + 1 ELSE @.stored]]
    /\ frame_ready' = IF ok THEN TRUE ELSE frame_ready
    /\ UNCHANGED <<_stopped, switching, call, raised, besides_switch>>

\* the capture thread that main started and those that switch_camera starts,
\* each storing at most MaxStores frames
NextSwitch ==
    \/ switch_camera_stop
    \/ \E opened \in BOOLEAN : switch_camera_start(opened)
    \/ \E i \in DOMAIN capture_loops : loop_test(i)
    \/ \E i \in DOMAIN capture_loops, ok \in BOOLEAN :
          /\ capture_loops[i].stored < MaxStores
          /\ loop_iteration(i, ok)

SpecSwitch == Init /\ [][NextSwitch]_vars

\* ------------------------------------------------------------------------
\* The capture loop streaming a video file: the pause hook
\* ------------------------------------------------------------------------

\* WebServer.load_video: "if self.camera.is_stream_video:" reads an attribute
\* that Camera.__init__ does not create (it creates is_stream_from_file), and
\* raises AttributeError before anything is assigned
load_video ==
    /\ call' = Call("load_video", None)
    /\ ret' = None
    /\ raised' = "AttributeError"
    /\ UNCHANGED <<analyzerVars, processorVars, frame_count, outside>>

\* a camera that streams a video file of MaxVideoFrames frames with the
\* analyzer's toggle_pause registered as pause_callback: the attributes that
\* load_video is written to assign, and the flag that the capture loop tests
InitVideo ==
    /\ is_stream_from_file = TRUE
    /\ video_frame_count = MaxVideoFrames
    /\ current_frame_idx = 0
    /\ pause_callback = Some("toggle_pause")
    /\ camera_init
    /\ thread_init
    /\ idle_init
    /\ analyzer_init(None)

\* "if self.is_stream_from_file: self.current_frame_idx += 1"
next_frame_idx == IF is_stream_from_file THEN current_frame_idx + 1 ELSE current_frame_idx

\* "self.video_frame_count == self.current_frame_idx and self.pause_callback
\* is not None", after the increment
hook_fires == video_frame_count = next_frame_idx /\ pause_callback # None

\* a hook that takes the web server's lock inside the lock of the camera
capture_hook_taking_server_lock ==
    /\ pc[Capture] = "ready"
    /\ server_lock = ""
    /\ server_lock' = Capture
    /\ UNCHANGED <<cameraVars, analyzerSide, _stopped, should_stop,
                   copied_timestamps, exited, late_iterations, sessionVars>>

\* the rest of the with block of the capture loop: "self.frame_ready = True",
\* the frame index, "self.pause_callback()" (the registered method called
\* without an argument) and the release of the lock
capture_hook ==
    /\ pc[Capture] = "ready"
    /\ pc' = [pc EXCEPT ![Capture] = "read"]
    /\ camera_lock' = ""
    /\ frame_ready' = TRUE
    /\ current_frame_idx' = next_frame_idx
    /\ IF hook_fires THEN toggle_pause(None) ELSE UNCHANGED analyzerSide
    /\ UNCHANGED <<camera_frame, arrays, local_frame, got, read_count, _stopped,
                   should_stop, server_lock, copied_timestamps, exited,
                   late_iterations, in_flight, capture_loops, switching,
                   is_stream_from_file, video_frame_count, pause_callback, waiting>>

\* the capture loop reading the video to its end while the analysis loop
\* runs and the operator uses the pause button
NextVideo ==
    \/ \E ok \in BOOLEAN :
          read_count < MaxVideoFrames /\ capture_read(ok) /\ UNCHANGED threadVars
    \/ capture_acquire /\ UNCHANGED threadVars
    \/ capture_store /\ UNCHANGED threadVars
    \/ capture_hook
    \/ Tick(TrackFrames, MaxFrames)
    \/ \E state \in {None} : toggle_pause(state) /\ UNCHANGED outside
    \/ load_video

SpecVideo == InitVideo /\ [][NextVideo]_vars

\* ------------------------------------------------------------------------
\* Camera.lock and WebServer.lock: who takes which lock
\* ------------------------------------------------------------------------

\* the handlers of the web server that read the history under WebServer.lock
Handlers == {"create_plots", "export_csv"}

\* what a thread leaves alone that enters or leaves the wait for a lock
besides_waiting ==
    <<_stopped, should_stop, copied_timestamps, exited, late_iterations, in_flight,
      capture_loops, switching, is_stream_from_file, video_frame_count,
      current_frame_idx, pause_callback>>

\* consumer c calls Camera.get_frame and reaches "with self.lock:"
call_get_frame(c) ==
    /\ pc[c] = "idle"
    /\ c \notin waiting
    /\ waiting' = waiting \cup {c}
    /\ UNCHANGED <<cameraVars, analyzerSide, server_lock, besides_waiting>>

\* the lock of the camera acquired by consumer c, blocked until then
enter_get_frame(c) ==
    /\ c \in waiting
    /\ get_frame_acquire(c)
    /\ waiting' = waiting \ {c}
    /\ UNCHANGED <<server_lock, besides_waiting>>

\* handler h is called and reaches "with self.lock:"
call_handler(h) ==
    /\ server_lock # h
    /\ h \notin waiting
    /\ waiting' = waiting \cup {h}
    /\ UNCHANGED <<cameraVars, analyzerSide, server_lock, besides_waiting>>

\* "with self.lock:" of create_plots and export_csv entered by handler h
enter_handler(h) ==
    /\ h \in waiting
    /\ server_lock = ""
    /\ server_lock' = h
    /\ waiting' = waiting \ {h}
    /\ UNCHANGED <<cameraVars, analyzerSide, besides_waiting>>

\* "history = self.analyzer.get_history()" and the end of the with block
leave_handler(h) ==
    /\ server_lock = h
    /\ server_lock' = ""
    /\ get_history
    /\ UNCHANGED <<cameraVars, waiting, besides_waiting>>

\* the two locks, the threads' places and the threads blocked on a lock
locks == <<camera_lock, server_lock, pc, waiting>>

\* the threads that call get_frame while the locks are contended
FrameCallers == {"analysis_loop"}

\* the capture loop, the analysis loop calling get_frame and the two handlers
\* that read the history, each taking and releasing its lock
NextLocks ==
    \/ \E ok \in BOOLEAN :
          read_count < MaxCaptures /\ capture_read(ok) /\ UNCHANGED threadVars
    \/ capture_acquire /\ UNCHANGED threadVars
    \/ capture_store /\ UNCHANGED threadVars
    \/ capture_hook
    \/ \E c \in FrameCallers :
          Len(arrays) - read_count < MaxCopies /\ call_get_frame(c)
    \/ \E c \in FrameCallers : enter_get_frame(c)
    \/ \E c \in FrameCallers : get_frame_copy(c) /\ UNCHANGED threadVars
    \/ \E c \in FrameCallers : use_frame(c) /\ UNCHANGED threadVars
    \/ \E h \in Handlers : call_handler(h)
    \/ \E h \in Handlers : enter_handler(h)
    \/ \E h \in Handlers : leave_handler(h)

\* A thread inside a with block goes on, and a thread blocked on a lock that
\* is released again and again obtains it: the capture loop sleeps 30 ms and
\* the analysis loop 100 ms after each release, and the handlers run on timers.
FairLocks ==
    /\ WF_locks(capture_store /\ UNCHANGED threadVars)
    /\ WF_locks(capture_hook)
    /\ SF_locks(capture_acquire /\ UNCHANGED threadVars)
    /\ \A c \in FrameCallers :
          /\ WF_locks(get_frame_copy(c) /\ UNCHANGED threadVars)
          /\ SF_locks(enter_get_frame(c))
    /\ \A h \in Handlers :
          /\ WF_locks(leave_handler(h))
          /\ SF_locks(enter_handler(h))

SpecLocks == Init /\ [][NextLocks]_vars /\ FairLocks

\* ------------------------------------------------------------------------
\* Properties
\* ------------------------------------------------------------------------

\* a >= b on two floats that are not NaN, by cross-multiplication
Geq(a, b) == a[1] * b[2] >= b[1] * a[2]

\* the channels for which the profile holds a threshold
Configured(profile) == {c \in ChannelSet : profile[c] # None}

\* the condition of a configured channel as the documentation words it
Fires(profile, stats, c) ==
    IF profile[c][1] >= 0 THEN Geq(stats[c], profile[c]) ELSE Geq(profile[c], stats[c])

\* C1: check_thresholds returns the AND over the configured thresholds of the
\* active profile: true iff at least one threshold is configured and the
\* condition of every configured channel fires; hence false when only one of
\* two configured conditions fires and false when nothing is configured.
C1_AndOverConfigured ==
    call.op = "check_thresholds" =>
        ret = (/\ current_profile # None
               /\ Configured(current_profile[1]) # {}
               /\ \A c \in Configured(current_profile[1]) :
                      Fires(current_profile[1], call.arg, c))

\* two thresholds configured, exactly one of the two conditions fires, and
\* check_thresholds returned False
C1_OneOfTwoFires ==
    /\ call.op = "check_thresholds"
    /\ current_profile # None
    /\ Cardinality(Configured(current_profile[1])) = 2
    /\ Cardinality({c \in Configured(current_profile[1]) :
                      Fires(current_profile[1], call.arg, c)}) = 1
    /\ ret = FALSE

\* the only configured channel of the active profile (when there is just one)
OnlyChannel == CHOOSE c \in ChannelSet : Configured(current_profile[1]) = {c}

\* check_thresholds was called under a profile with exactly one threshold
OneThreshold ==
    /\ call.op = "check_thresholds"
    /\ current_profile # None
    /\ Cardinality(Configured(current_profile[1])) = 1

\* C2: the sign of a configured threshold selects the direction: with a
\* threshold t >= 0 (t = 0 included) the channel fires iff value >= t, with
\* t < 0 it fires iff value <= t; +5 fires at 5 and not at 4.99, -5 fires at
\* -5 and not at -4.99.
C2_SignSelectsDirection ==
    OneThreshold =>
        LET t == current_profile[1][OnlyChannel]
            value == call.arg[OnlyChannel]
        IN  /\ t[1] >= 0 => (ret <=> Geq(value, t))
            /\ t[1] < 0 => (ret <=> Geq(t, value))
            /\ (t = Q(5) /\ value = Q(5)) => ret
            /\ (t = Q(5) /\ value = <<499, 100>>) => ~ret
            /\ (t = Q(-5) /\ value = Q(-5)) => ret
            /\ (t = Q(-5) /\ value = <<-499, 100>>) => ~ret

\* a threshold of exactly 0 fired on a positive value
C2_ZeroThresholdFires ==
    /\ OneThreshold
    /\ current_profile[1][OnlyChannel] = Q(0)
    /\ call.arg[OnlyChannel] = <<499, 100>>
    /\ ret = TRUE

\* s is t with exactly one element appended
OneAppended(s, t) == Len(s) = Len(t) + 1 /\ SubSeq(s, 1, Len(t)) = t

\* C3: every update made while the analyzer is not paused appends exactly
\* one sample and exactly one timestamp, and no other operation (nor a
\* paused update) ever makes the sample list or the timestamp list longer.
C3_UpdateAppendsOne ==
    [][IF call'.op = "update" /\ ~is_paused
       THEN OneAppended(hsv_history', hsv_history) /\ OneAppended(timestamps', timestamps)
       ELSE Len(hsv_history') <= Len(hsv_history) /\ Len(timestamps') <= Len(timestamps)]_vars

\* an unpaused update has appended a second sample to the one recorded before
C3_SecondSampleAppended ==
    /\ call.op = "update"
    /\ ~is_paused
    /\ Len(hsv_history) = 2
    /\ Len(timestamps) = 2

\* C4: while is_paused is true, update is a complete no-op: the history, the
\* timestamps, ref_stats, current_mask, current_ellipse, inner_ellipse,
\* ellipse_score and the tracker's previous ellipse and mask (and every other
\* attribute) are what they were before the call.
C4_PausedUpdateNoOp ==
    [][(call'.op = "update" /\ is_paused) =>
          UNCHANGED <<analyzerVars, processorVars>>]_vars

\* an update was called on a paused analyzer that had recorded a sample and
\* tracked an ellipse, with a frame in which no contour is found
C4_PausedUpdateCalled ==
    /\ call.op = "update"
    /\ Frames[call.arg].contours = << >>
    /\ is_paused
    /\ Len(hsv_history) = 1
    /\ prev_ellipse # None
    /\ is_ellipse_enabled
    /\ ~is_mask_frozen

\* the twelve value series of a dictionary returned by get_history
ValueSeries ==
    {"h_means", "s_means", "v_means", "h_decay", "s_decay", "v_decay",
     "dH", "dS", "dV", "ddH", "ddS", "ddV"}

\* the statistics measured on frame f under the mask in place after the call
Measured(f, mask) == get_hsv_stats(to_hsv(Frames[f]), mask)

\* C5: set_reference stores the statistics of the given frame as the new
\* baseline and clears the sample history: a get_history made right after it
\* returns an empty list for every value series, whatever was recorded
\* before, and the next update seeds the decay filter afresh (its sample is
\* the only one, with decay equal to the relative value).
C5_SetReferenceClears ==
    [][/\ call'.op = "set_reference" =>
              /\ ref_stats' = Some(Measured(call'.arg, current_mask'))
              /\ hsv_history' = << >>
       /\ (call.op = "set_reference" /\ call'.op = "get_history") =>
              /\ raised' = ""
              /\ \A k \in ValueSeries : ret'[1][k].items = << >>
       /\ (call.op = "set_reference" /\ call'.op = "update" /\ ~is_paused) =>
              /\ Len(hsv_history') = 1
              /\ hsv_history'[1].h_decay = hsv_history'[1].h_m
              /\ hsv_history'[1].s_decay = hsv_history'[1].s_m
              /\ hsv_history'[1].v_decay = hsv_history'[1].v_m
              /\ hsv_history'[1].s_m =
                     RSub(Measured(call'.arg, current_mask').s_m, ref_stats[1].s_m)]_vars

\* a sample had been recorded, a new reference was set, and the next update
\* recorded a first sample that differs from the new baseline
C5_ReseededAfterReference ==
    /\ call.op = "update"
    /\ Len(timestamps) = 2
    /\ Len(hsv_history) = 1
    /\ hsv_history[1].s_m # Q(0)
    /\ hsv_history[1].s_decay = hsv_history[1].s_m

\* C6: the raw relative value an update stores for each channel is the mean
\* measured on that tick minus the reference mean of that channel, exactly;
\* the update leaves a reference that is set, and the samples stored before,
\* as they are.
C6_RelativeIsMeasuredMinusReference ==
    [][(call'.op = "update" /\ ~is_paused) =>
          LET sample == Last(hsv_history')
              measured == Measured(call'.arg, current_mask')
              reference == ref_stats'[1]
          IN  /\ RAdd(sample.h_m, reference.h_m) = measured.h_m
              /\ RAdd(sample.s_m, reference.s_m) = measured.s_m
              /\ RAdd(sample.v_m, reference.v_m) = measured.v_m
              /\ ref_stats # None => ref_stats' = ref_stats
              /\ SubSeq(hsv_history', 1, Len(hsv_history)) = hsv_history]_vars

\* a sample with nonzero relative saturation and value was recorded against
\* a reference whose saturation and value means are not zero
C6_NonzeroRelativeRecorded ==
    /\ call.op = "update"
    /\ Len(hsv_history) = 2
    /\ Last(hsv_history).s_m # Q(0)
    /\ Last(hsv_history).v_m # Q(0)
    /\ ref_stats[1].s_m # Q(0)
    /\ ref_stats[1].v_m # Q(0)

\* the channels of the signal chain: raw value, decay, first and second
\* derivative
SignalChannels ==
    {<<"h_m", "h_decay", "dh", "ddh">>,
     <<"s_m", "s_decay", "ds", "dds">>,
     <<"v_m", "v_decay", "dv", "ddv">>}

\* C7: the stored decay series obeys the first-order recursion per channel:
\* the first sample after a reference has decay = relative, and every later
\* sample has decay = alpha * relative + (1 - alpha) * the decay of the
\* sample stored just before it.
C7_DecayRecursion ==
    \A c \in SignalChannels :
        \A i \in 1..Len(hsv_history) :
            LET sample == hsv_history[i] IN
            IF i = 1
            THEN sample[c[2]] = sample[c[1]]
            ELSE sample[c[2]] =
                     RAdd(RMul(decay_alpha, sample[c[1]]),
                          RMul(RSub(Q(1), decay_alpha), hsv_history[i - 1][c[2]]))

\* two samples stored after a reference, the first with a nonzero relative
\* value and the second with a decay that differs from its relative value
C7_DecayLagsRelative ==
    /\ Len(hsv_history) = 2
    /\ hsv_history[1].s_m # Q(0)
    /\ hsv_history[2].s_m # hsv_history[1].s_m
    /\ hsv_history[2].s_decay # hsv_history[2].s_m

\* C8: the stored second derivative of a channel is (first derivative -
\* previous first derivative) only when the previous sample's first
\* derivative of that channel is nonzero; when that is exactly 0, or on the
\* first sample, it is 0 whatever the current first derivative is.
C8_SecondDerivativeGuard ==
    \A c \in SignalChannels :
        \A i \in 1..Len(hsv_history) :
            LET sample == hsv_history[i] IN
            IF i = 1 THEN sample[c[4]] = Q(0)
            ELSE IF hsv_history[i - 1][c[3]] = Q(0) THEN sample[c[4]] = Q(0)
            ELSE RAdd(sample[c[4]], hsv_history[i - 1][c[3]]) = sample[c[3]]

\* the second sample has a nonzero first derivative and a second derivative
\* forced to 0; the third has a second derivative that is a real difference
C8_ForcedZeroThenDifference ==
    /\ Len(hsv_history) = 3
    /\ hsv_history[2].ds # Q(0)
    /\ hsv_history[2].dds = Q(0)
    /\ hsv_history[3].dds # Q(0)
    /\ hsv_history[3].dds # hsv_history[3].ds

\* C9: get_history never advances, removes or modifies stored samples: with
\* smoothing enabled or disabled the sample list, the timestamps and
\* ref_stats are the same before and after the call, and of the analyzer's
\* and the tracker's attributes only current_smoothed_stats and
\* is_threshold_exceeded may change.
C9_GetHistoryReadOnly ==
    [][call'.op = "get_history" =>
          UNCHANGED <<hsv_history, timestamps, ref_stats, is_paused, current_mask,
                      current_ellipse, inner_ellipse, ellipse_score,
                      is_ellipse_enabled, is_mask_frozen, current_profile,
                      derivative_smoothing, smoothing_window_size, processorVars>>]_vars

\* get_history returned the two stored samples and refreshed
\* current_smoothed_stats from the second one
C9_ReadTwoSamples ==
    /\ call.op = "get_history"
    /\ raised = ""
    /\ Len(hsv_history) = 2
    /\ Len(ret[1].s_decay.items) = 2
    /\ current_smoothed_stats = Some(Last(hsv_history))
    /\ Last(hsv_history).s_decay # hsv_history[1].s_decay

\* the nine decay and derivative series of a dictionary returned by get_history
SmoothedSeries ==
    {"h_decay", "s_decay", "v_decay", "dH", "dS", "dV", "ddH", "ddS", "ddV"}

\* C10: with derivative smoothing enabled, for every window size W >= 1 and
\* every history length n >= 1, each of the nine decay and derivative series
\* that get_history returns has exactly n elements, like the raw series.
C10_SmoothedSeriesKeepLength ==
    (/\ call.op = "get_history"
     /\ raised = ""
     /\ derivative_smoothing
     /\ Len(hsv_history) >= 1) =>
        \A k \in SmoothedSeries : Len(ret[1][k].items) = Len(hsv_history)

\* C11: two consecutive get_history calls with nothing in between give the
\* same outcome: the second call returns the series the first returned (or
\* raises as the first did) and leaves is_threshold_exceeded and
\* current_smoothed_stats at the values the first call left.
C11_RepeatedReadIdentical ==
    [][(call.op = "get_history" /\ call'.op = "get_history") =>
          /\ ret' = ret
          /\ raised' = raised
          /\ is_threshold_exceeded' = is_threshold_exceeded
          /\ current_smoothed_stats' = current_smoothed_stats]_vars

\* a smoothed read of three samples returned the series and refreshed
\* current_smoothed_stats with a smoothed derivative that is not zero
C11_SmoothedReadRefreshed ==
    /\ call.op = "get_history"
    /\ raised = ""
    /\ derivative_smoothing
    /\ Len(hsv_history) = 3
    /\ Len(ret[1].dS.items) > 0
    /\ current_smoothed_stats # None
    /\ current_smoothed_stats[1].ds = Last(ret[1].dS.items)
    /\ current_smoothed_stats[1].ds # Q(0)

\* the key under which get_history returns the series of a threshold channel
DictKey(c) ==
    CASE c = "dh" -> "dH" [] c = "ds" -> "dS" [] c = "dv" -> "dV"
      [] c = "ddh" -> "ddH" [] c = "dds" -> "ddS" [] c = "ddv" -> "ddV"
      [] OTHER -> c

\* the alarm as the documentation words it: a profile is active, holds a
\* threshold, and every configured condition fires on the stats
Exceeded(profile, stats) ==
    /\ profile # None
    /\ Configured(profile[1]) # {}
    /\ \A c \in Configured(profile[1]) : Fires(profile[1], stats, c)

\* the values of the latest sample that the alarm is about: the last elements
\* of the returned smoothed series, or the stored raw sample
LatestValues ==
    IF derivative_smoothing
    THEN [c \in ChannelSet |-> Last(ret[1][DictKey(c)].items)]
    ELSE [c \in ChannelSet |-> Last(hsv_history)[c]]

\* C12: after get_history returns on a non-empty history, is_threshold_exceeded
\* is the threshold check of the latest sample: of the last smoothed decay and
\* derivative values when derivative smoothing is enabled, of the stored raw
\* values of the last sample when it is disabled.
C12_AlarmFollowsLatestSample ==
    (/\ call.op = "get_history"
     /\ raised = ""
     /\ hsv_history # << >>) =>
        is_threshold_exceeded = Exceeded(current_profile, LatestValues)

\* a smoothed read raised the alarm on the last smoothed values, which the
\* first values of the series would not have raised
C12_SmoothedAlarm ==
    /\ call.op = "get_history"
    /\ raised = ""
    /\ derivative_smoothing
    /\ Len(hsv_history) = 3
    /\ is_threshold_exceeded
    /\ Last(ret[1].ddS.items) # Last(hsv_history).dds
    /\ ~Exceeded(current_profile, [c \in ChannelSet |-> ret[1][DictKey(c)].items[1]])

\* C13: with no active profile the threshold check returns False for every
\* stats record and raises nothing, so after a get_history call on a
\* non-empty history with no active profile is_threshold_exceeded is False.
C13_NoProfileNoAlarm ==
    /\ \A stats \in ThresholdStats : check_thresholds(None, stats) = FALSE
    /\ (/\ call.op = "get_history"
        /\ current_profile = None
        /\ hsv_history # << >>) => ~is_threshold_exceeded

\* no contour of frame f is accepted by the tracker's loop, given the
\* previously accepted ellipse prev
NoCandidate(f, prev) ==
    \A i \in 1..Len(Frames[f].contours) :
        \/ contour_score(Frames[f].contours[i], prev) = None
        \/ ~RGt(contour_score(Frames[f].contours[i], prev), Q(0))

\* the step is an update that runs the tracker on its frame
TrackingUpdate ==
    /\ call'.op = "update"
    /\ ~is_paused
    /\ is_ellipse_enabled
    /\ ~is_mask_frozen

WholeFrameMean(f, ch) ==
    RMul(RSum([i \in 1..Len(PixelList) |->
                  Q(Frames[f].hsv[PixelList[i][1] + 1][PixelList[i][2] + 1][ch])]),
         <<1, Len(PixelList)>>)

\* the means of the three channels over the whole of frame f
WholeFrameStats(f) ==
    [h_m |-> WholeFrameMean(f, 1), s_m |-> WholeFrameMean(f, 2),
     v_m |-> WholeFrameMean(f, 3)]

\* C15: on an enabled, unfrozen update that finds no candidate while no
\* ellipse was ever accepted, the tracker yields no mask, no ellipse, no inner
\* ellipse and no score, and the statistics of that tick are the means over
\* the whole frame, computed without raising: they become the reference when
\* none is set, and the recorded sample is their difference to the reference.
C15_NoEllipseWholeFrame ==
    [][(/\ TrackingUpdate
        /\ NoCandidate(call'.arg, prev_ellipse)
        /\ prev_ellipse = None) =>
          /\ current_mask' = None
          /\ current_ellipse' = None
          /\ inner_ellipse' = None
          /\ ellipse_score' = None
          /\ raised' = ""
          /\ ref_stats = None => ref_stats' = Some(WholeFrameStats(call'.arg))
          /\ Len(hsv_history') = Len(hsv_history) + 1
          /\ \A k \in {"h_m", "s_m", "v_m"} :
                 RAdd(Last(hsv_history')[k], ref_stats'[1][k])
                     = WholeFrameStats(call'.arg)[k]]_vars

\* a frame without contours was analysed against the whole-frame reference
\* of a different frame while no ellipse had ever been accepted
C15_WholeFrameSample ==
    /\ call.op = "update"
    /\ Frames[call.arg].contours = << >>
    /\ is_ellipse_enabled
    /\ ~is_mask_frozen
    /\ prev_ellipse = None
    /\ current_mask = None
    /\ current_ellipse = None
    /\ ellipse_score = None
    /\ hsv_history # << >>
    /\ Last(hsv_history).s_m # Q(0)
    /\ RAdd(Last(hsv_history).s_m, ref_stats[1].s_m) = WholeFrameStats(call.arg).s_m

\* C16: called sequentially, set_ellipse_masking(False) makes current_ellipse
\* and current_mask None, and they stay None over every update, set_reference,
\* freeze_mask, toggle_pause and get_history call made before
\* set_ellipse_masking(True); every sample and every reference recorded in
\* between is computed over the whole frame.
C16_DisabledMaskingStaysOff ==
    [][/\ (call'.op = "set_ellipse_masking" /\ call'.arg = FALSE) =>
              /\ ~is_ellipse_enabled'
              /\ current_ellipse' = None
              /\ current_mask' = None
       /\ (~is_ellipse_enabled /\ call'.op # "set_ellipse_masking") =>
              /\ ~is_ellipse_enabled'
              /\ current_ellipse' = None
              /\ current_mask' = None
       /\ (~is_ellipse_enabled /\ call'.op = "update" /\ ~is_paused) =>
              /\ Len(hsv_history') = Len(hsv_history) + 1
              /\ \A k \in {"h_m", "s_m", "v_m"} :
                     RAdd(Last(hsv_history')[k], ref_stats'[1][k])
                         = WholeFrameStats(call'.arg)[k]
       /\ (~is_ellipse_enabled /\ call'.op = "set_reference") =>
              ref_stats' = Some(WholeFrameStats(call'.arg))]_vars

\* masking was switched off after a dish had been tracked, and a later frame
\* was recorded without the dish's mask
C16_SampledWithoutStaleMask ==
    /\ call.op = "update"
    /\ ~is_ellipse_enabled
    /\ prev_mask # None
    /\ current_mask = None
    /\ current_ellipse = None
    /\ Len(hsv_history) = 2
    /\ Last(hsv_history).s_m # Q(0)
    /\ WholeFrameStats(call.arg) # Measured(call.arg, prev_mask)

\* what the tracker reads and what the analyzer keeps of its outcome
TrackingState ==
    <<current_mask, current_ellipse, inner_ellipse, ellipse_score, prev_ellipse,
      prev_mask>>

\* C17: freeze_mask toggles the frozen flag; while the mask is frozen with
\* masking enabled, update and set_reference leave current_mask,
\* current_ellipse, inner_ellipse, ellipse_score and the tracker's previous
\* ellipse and mask as they are, and compute their statistics with that mask.
C17_FrozenMaskFixed ==
    [][/\ call'.op = "freeze_mask" =>
              /\ is_mask_frozen' = ~is_mask_frozen
              /\ UNCHANGED TrackingState
       /\ (/\ is_mask_frozen
           /\ is_ellipse_enabled
           /\ call'.op \in {"update", "set_reference"}) =>
              UNCHANGED <<TrackingState, is_mask_frozen>>
       /\ (/\ is_mask_frozen
           /\ is_ellipse_enabled
           /\ call'.op = "update"
           /\ ~is_paused) =>
              /\ Len(hsv_history') = Len(hsv_history) + 1
              /\ \A k \in {"h_m", "s_m", "v_m"} :
                     RAdd(Last(hsv_history')[k], ref_stats'[1][k])
                         = Measured(call'.arg, current_mask)[k]
       /\ (/\ is_mask_frozen
           /\ is_ellipse_enabled
           /\ call'.op = "set_reference") =>
              ref_stats' = Some(Measured(call'.arg, current_mask))]_vars

\* the frame without contours was analysed under the frozen mask of a dish:
\* the score of the dish is kept, where the tracker would have returned 0
C17_FrozenOnDish ==
    /\ call.op = "update"
    /\ Frames[call.arg].contours = << >>
    /\ is_mask_frozen
    /\ is_ellipse_enabled
    /\ current_mask # None
    /\ current_ellipse = prev_ellipse
    /\ ellipse_score # Q(0)
    /\ Len(hsv_history) = 2
    /\ Last(hsv_history).s_m # Q(0)

\* the mask selects no pixel
EmptyMask(mask) ==
    /\ mask # None
    /\ \A r \in 1..Len(mask) : \A c \in 1..Len(mask[r]) : mask[r][c] = 0

C19_ReferenceFixedUntilReset ==
    [][/\ (ref_stats # None /\ call'.op # "set_reference") =>
              ref_stats' = ref_stats
       /\ (ref_stats # None /\ call'.op = "update" /\ ~is_paused) =>
              \A k \in {"h_m", "s_m", "v_m"} :
                  Last(hsv_history')[k]
                      = RSub(Measured(call'.arg, current_mask')[k], ref_stats[1][k])]_vars

\* two samples were recorded against the baseline that the first update
\* adopted, the second one measuring something else than the baseline
C19_SecondSampleOnFirstBaseline ==
    /\ call.op = "update"
    /\ Len(hsv_history) = 2
    /\ Len(timestamps) = 2
    /\ ref_stats # None
    /\ hsv_history[1].s_m = Q(0)
    /\ hsv_history[2].s_m # Q(0)
    /\ Measured(call.arg, current_mask) # ref_stats[1]

\* the number of the frame that the last completed "self.frame = frame" of the
\* capture loop stored, 0 when none was stored yet
LatestStored ==
    IF pc[Capture] \in {"acquire", "store"} THEN read_count - 1 ELSE read_count

\* C20: under every interleaving of the capture loop and the consumers,
\* get_frame returns None when no frame was stored yet, and otherwise a
\* private copy of the frame most recently stored by one complete write of
\* the capture loop: the read is never made while the loop is inside its
\* write, the returned array is neither the stored one nor another
\* consumer's, and no later step of the capture loop alters a returned frame.
C20_ReadsWholeLatestFrame ==
    [][\A c \in Consumers :
          /\ (pc[c] = "copy" /\ pc'[c] = "use") =>
                /\ pc[Capture] \notin {"store", "ready"}
                /\ IF LatestStored = 0
                   THEN got'[c] = None
                   ELSE /\ got'[c] # None
                        /\ arrays'[got'[c][1]] = Array(LatestStored, FALSE)
                        /\ got'[c] # camera_frame'
                        /\ got'[c] # local_frame'
                        /\ \A d \in Consumers \ {c} : got'[d] # got'[c]
          /\ (got[c] # None /\ pc'[Capture] # pc[Capture]) =>
                /\ got'[c] = got[c]
                /\ arrays'[got[c][1]] = arrays[got[c][1]]]_vars

\* the web server drew into its copy of the first frame, the capture loop
\* stored the second frame, the analysis loop got a copy of the second frame
C20_TwoConsumersTwoFrames ==
    /\ got["show_frame"] # None
    /\ arrays[got["show_frame"][1]] = Array(1, TRUE)
    /\ camera_frame # None
    /\ arrays[camera_frame[1]] = Array(2, FALSE)
    /\ pc["analysis_loop"] = "use"
    /\ got["analysis_loop"] # None
    /\ got["analysis_loop"] # camera_frame
    /\ arrays[got["analysis_loop"][1]] = Array(2, FALSE)

\* ------------------------------------------------------------------------
\* The loops and the web server running concurrently
\* ------------------------------------------------------------------------

\* C21: a history read made while the analysis loop updates sees one
\* consistent view: the thirteen series that get_history returns all have the
\* same length.
C21_ConsistentView ==
    (call.op = "get_history" /\ ret # None) =>
        \A k \in StatsKeys : Len(ret[1][k].items) = Len(ret[1].timestamps.items)

\* C22: each frame read from the stream contributes at most one sample, so
\* the samples recorded by the analysis loop never outnumber the frames the
\* capture loop has read.
C22_OneSamplePerFrame == Len(hsv_history) <= read_count

\* C23: once a stop flag is set (Camera.stop or WebServer.shutdown), neither
\* the capture loop nor the analysis loop begins more than one further
\* iteration.
C23_StopObservedWithinOneIteration ==
    \A t \in Loops : late_iterations[t] <= 1

\* ------------------------------------------------------------------------
\* The decay filter under a constant input
\* ------------------------------------------------------------------------

\* x to the power n
RECURSIVE Pow(_, _)
Pow(x, n) == IF n = 0 THEN Q(1) ELSE RMul(x, Pow(x, n - 1))

\* the sign of a float: 1, 0 or -1
Sign(x) == IF x[1] > 0 THEN 1 ELSE IF x[1] < 0 THEN -1 ELSE 0

\* the samples i+1 .. j hold the same relative value of channel c
ConstantRun(c, i, j) ==
    \A k \in (i + 1)..j : hsv_history[k][c[1]] = hsv_history[j][c[1]]

\* C24: when the relative value of a channel is r on N >= 2 consecutive
\* samples, the decay after n of them is r - (1 - alpha)^n * (r - d0), d0
\* being the decay of the sample before the first of them, and from one
\* sample to the next the decay comes no farther from r and never crosses it.
C24_ConstantInputGeometric ==
    \A c \in SignalChannels :
        \A i \in 1..Len(hsv_history) : \A j \in (i + 2)..Len(hsv_history) :
            ConstantRun(c, i, j) =>
                LET r == hsv_history[j][c[1]]
                    d0 == hsv_history[i][c[2]]
                    gap(k) == RSub(r, hsv_history[k][c[2]])
                IN  \A n \in 1..(j - i) :
                        /\ hsv_history[i + n][c[2]] =
                               RSub(r, RMul(Pow(RSub(Q(1), decay_alpha), n), RSub(r, d0)))
                        /\ RLe(RAbs(gap(i + n)), RAbs(gap(i + n - 1)))
                        /\ Sign(gap(i + n)) * Sign(gap(i)) >= 0

\* the hue is the same on the second and the third sample and differs from
\* the decay of the first, so that the decay is still on its way
C24_TwoEqualInputsOffTarget ==
    /\ Len(hsv_history) = 3
    /\ hsv_history[2].h_m = hsv_history[3].h_m
    /\ hsv_history[1].h_decay # hsv_history[2].h_m
    /\ hsv_history[3].h_decay # hsv_history[3].h_m
    /\ hsv_history[3].h_decay # hsv_history[2].h_decay

\* ------------------------------------------------------------------------
\* The repeated measurement, end to end
\* ------------------------------------------------------------------------

\* r - (1 - alpha)^n * (r - d0), which is r when the gap r - d0 is zero
Geometric(r, d0, n) ==
    IF r = d0 THEN r
    ELSE RSub(r, RMul(Pow(RSub(Q(1), decay_alpha), n), RSub(r, d0)))

\* the samples of the repeated scene in the history, the decay before the
\* first of them (their own relative value when the history starts with them)
RepeatedSamples == IF Rising THEN 2..Len(hsv_history) ELSE 1..Len(hsv_history)

\* C25: with the reference {100, 100, 100}, alpha = 0.05 and a profile whose
\* only threshold is h_decay = 4.5, the sample {105, 100, 95} applied up to
\* twenty times gives a hue decay that follows the geometric formula toward
\* 5, and at every read of the history the alarm is off when the latest hue
\* decay is below 4.5 and on when it is 4.5 or more.
C25_RepeatedSampleAlarm ==
    (ref_stats = Some([h_m |-> Q(100), s_m |-> Q(100), v_m |-> Q(100)])) =>
        /\ \A k \in RepeatedSamples :
               /\ hsv_history[k].h_m = Q(5)
               /\ hsv_history[k].h_decay =
                      Geometric(Q(5), IF Rising THEN hsv_history[1].h_decay ELSE Q(5),
                                k - (IF Rising THEN 1 ELSE 0))
        /\ (/\ call.op = "get_history"
            /\ hsv_history # << >>
            /\ current_profile # None
            /\ current_profile[1].name = "h-decay") =>
               (is_threshold_exceeded <=> RGe(Last(hsv_history).h_decay, <<9, 2>>))

\* the twentieth measurement read back under the 4.5 profile with the alarm on
C25_TwentiethReadAlarmed ==
    /\ call.op = "get_history"
    /\ Len(hsv_history) = 20
    /\ current_profile # None
    /\ current_profile[1].name = "h-decay"
    /\ is_threshold_exceeded
    /\ ret[1].h_decay.items[20] = Q(5)

\* ------------------------------------------------------------------------
\* The pause and freeze toggles
\* ------------------------------------------------------------------------

\* C26: toggle_pause without an argument flips is_paused, so that a second
\* such call right after restores the state and the other label; with an
\* explicit boolean it sets is_paused to that boolean whatever the state was;
\* the label returned is "Resume" exactly when the analyzer is paused after
\* the call, else "Pause". freeze_mask flips is_mask_frozen and returns
\* "Unfreeze Mask" exactly when the mask is frozen after the call, else
\* "Freeze Mask".
C26_TogglesAndLabels ==
    [][/\ call'.op = "toggle_pause" =>
              /\ is_paused' = (IF call'.arg = None THEN ~is_paused ELSE call'.arg[1])
              /\ ret' = (IF is_paused' THEN "Resume" ELSE "Pause")
              /\ (call.op = "toggle_pause" /\ call.arg = None /\ call'.arg = None) =>
                     ret' # ret
              /\ is_mask_frozen' = is_mask_frozen
       /\ call'.op = "freeze_mask" =>
              /\ is_mask_frozen' = ~is_mask_frozen
              /\ ret' = (IF is_mask_frozen' THEN "Unfreeze Mask" ELSE "Freeze Mask")
              /\ is_paused' = is_paused]_vars

\* toggle_pause(False) has answered "Pause" on an analyzer that holds a
\* sample and a frozen mask
C26_ExplicitResume ==
    /\ call.op = "toggle_pause"
    /\ call.arg = Some(FALSE)
    /\ ret = "Pause"
    /\ ~is_paused
    /\ is_mask_frozen
    /\ hsv_history # << >>

\* ------------------------------------------------------------------------
\* The inner ellipse and the selection of the dish
\* ------------------------------------------------------------------------

\* the step is an update or a set_reference that runs the tracker
TrackingCall ==
    /\ \/ call'.op = "update" /\ ~is_paused
       \/ call'.op = "set_reference"
    /\ is_ellipse_enabled
    /\ ~is_mask_frozen

\* C27: after every enabled, unfrozen update or set_reference that leaves a
\* tracked ellipse, on a hit and on a fallback to the previous ellipse alike,
\* the inner ellipse has the centre and the angle of the current ellipse and
\* (1 - ellipse_margin) times its axes, and the mask is the rasterization of
\* that inner ellipse.
C27_InnerEllipseShrunk ==
    [][(TrackingCall /\ current_ellipse' # None) =>
          /\ inner_ellipse' = inner_of(current_ellipse', ellipse_margin)
          /\ current_mask' = rasterize(inner_ellipse')]_vars

\* the distance of two undirected axis angles, at most 90 degrees
AxisDistance(a, b) ==
    LET d == RAbs(RSub(a, b)) IN IF RGt(d, Q(90)) THEN RSub(Q(180), d) ELSE d

\* C28: for previous and current angles in [0, 180) and alpha in [0, 1], the
\* angle that blend_ellipses returns lies in [0, 180) and on the shorter arc
\* between the two axis angles; blending 179 and 1 degrees yields an angle
\* within 1 degree of the 0/180 seam.
C28_BlendOnShorterArc ==
    call.op = "blend_ellipses" =>
        LET current == call.arg[1][3]
            previous == call.arg[2][3]
            angle == ret[3]
        IN  /\ RGe(angle, Q(0))
            /\ RLt(angle, Q(180))
            /\ RAdd(AxisDistance(angle, previous), AxisDistance(angle, current))
                   = AxisDistance(previous, current)
            /\ ({current, previous} = {Q(1), Q(179)}) =>
                   RLe(AxisDistance(angle, Q(0)), Q(1))

\* 179 degrees blended with a current angle of 1 degree, neither taken alone
C28_BlendAcrossSeam ==
    /\ call.op = "blend_ellipses"
    /\ call.arg[1][3] = Q(1)
    /\ call.arg[2][3] = Q(179)
    /\ alpha = <<1, 4>>
    /\ ret[3] = <<1, 2>>

\* the contour passes the four rejection filters of the documentation
Passes(contour) ==
    /\ RGe(contour.length, RMul(<<2, 5>>, Q(FrameShape[2])))
    /\ RLe(contour.length, Q(3 * FrameShape[2]))
    /\ contour.npts >= 5
    /\ contour.fit # None
    /\ RGe(RDiv(contour.fit[2][1], contour.fit[2][2]), <<1, 2>>)

\* the contours of frame f that pass the filters, by their position
Candidates(f) == {i \in 1..Len(Frames[f].contours) : Passes(Frames[f].contours[i])}

\* perimeter * (1 - |1 - aspect_ratio|) * center_weight
BaseScore(contour) ==
    LET fit == contour.fit
        dx == RSub(fit[1][1], Q(FrameShape[2] \div 2))
        dy == RSub(fit[1][2], Q(FrameShape[1] \div 2))
        center_weight ==
            RSub(Q(1),
                 RDiv(Sqrt(RAdd(RMul(dx, dx), RMul(dy, dy))),
                      RMul(<<1, 2>>,
                           Sqrt(Q(FrameShape[2] * FrameShape[2]
                                  + FrameShape[1] * FrameShape[1])))))
    IN  RMul(RMul(contour.length,
                  RSub(Q(1), RAbs(RSub(Q(1), RDiv(fit[2][1], fit[2][2]))))),
             center_weight)

\* 0.5 * (dist_weight + size_weight) against the previous ellipse
TemporalBonus(contour, prev) ==
    LET fit == contour.fit
        dx == RSub(fit[1][1], prev[1][1])
        dy == RSub(fit[1][2], prev[1][2])
        dist_weight ==
            ExpNeg(RDiv(Sqrt(RAdd(RMul(dx, dx), RMul(dy, dy))),
                        RMul(<<1, 5>>, Q(FrameShape[2]))))
        size_weight ==
            ExpNeg(RAbs(RSub(Q(1), RDiv(RMul(fit[2][1], fit[2][2]),
                                        RMul(prev[2][1], prev[2][2])))))
    IN  RMul(<<1, 2>>, RAdd(dist_weight, size_weight))

\* the final score as documented: the base score alone without a previous
\* ellipse, the base score with the temporal bonus otherwise
DocumentedScore(contour, prev) ==
    IF prev = None THEN BaseScore(contour)
    ELSE RMul(BaseScore(contour), RAdd(Q(1), TemporalBonus(contour, prev)))

\* the first candidate of frame f, in contour order, whose final score is the
\* greatest
FirstBest(f, prev) ==
    CHOOSE i \in Candidates(f) :
        /\ \A j \in Candidates(f) :
               RLe(contour_score(Frames[f].contours[j], prev),
                   contour_score(Frames[f].contours[i], prev))
        /\ \A j \in Candidates(f) :
               j < i => RLt(contour_score(Frames[f].contours[j], prev),
                            contour_score(Frames[f].contours[i], prev))

\* C29: whenever at least one contour passes the rejection filters, the
\* tracker selects the first candidate in contour order whose final score is
\* the greatest: that candidate, blended with the previous ellipse, becomes
\* the tracked ellipse with its score, and "none found" is not reported.
C29_FirstBestSelected ==
    [][(TrackingCall /\ Candidates(call'.arg) # {}) =>
          LET f == call'.arg
              best == Frames[f].contours[FirstBest(f, prev_ellipse)]
          IN  /\ current_ellipse' = blend_ellipses(best.fit, prev_ellipse, alpha)
              /\ ellipse_score' = contour_score(best, prev_ellipse)
              /\ prev_ellipse' = current_ellipse']_vars

\* the tracker has accepted a candidate in this step
Hit == ellipse_score' # None /\ RGt(ellipse_score', Q(0))

\* C30: the score reported for the winner is its base score perimeter *
\* (1 - |1 - aspect_ratio|) * center_weight when no previous ellipse exists,
\* and the base score times 1 + 0.5 * (dist_weight + size_weight) when one
\* does.
C30_ScoreAsDocumented ==
    [][(TrackingCall /\ Hit) =>
          \E i \in Candidates(call'.arg) :
              ellipse_score' = DocumentedScore(Frames[call'.arg].contours[i],
                                               prev_ellipse)]_vars

\* C33: in every state reachable by sequential calls of set_reference,
\* update, toggle_pause and get_history the list of timestamps is as long as
\* the list of stored samples, so that timestamps[i] is the time at which
\* sample i was recorded.
C33_TimestampsMatchSamples == Len(timestamps) = Len(hsv_history)

\* C34: the alarm never outlives the data it was computed from: while no
\* sample has been recorded since set_reference cleared the history,
\* is_threshold_exceeded is False, also after a get_history call on the empty
\* history.
C34_NoAlarmOnClearedHistory == hsv_history = << >> => ~is_threshold_exceeded

\* C35: in every reachable state is_threshold_exceeded = True implies that
\* current_profile is not None, after any sequence of set_profile (also with
\* the None of a failed lookup), update and get_history calls.
C35_AlarmHasProfile == is_threshold_exceeded => current_profile # None

\* the sample whose raw relative values, decay values and derivatives are 0
ZeroSample ==
    HSVStats(Q(0), Q(0), Q(0), Q(0), Q(0), Q(0), Q(0), Q(0), Q(0), Q(0), Q(0), Q(0))

\* C36: an unpaused update made while no reference is set adopts the
\* statistics of that same tick as the reference and appends a sample whose
\* raw relative values, decay values and derivatives are all exactly 0; an
\* update made with a reference, or while paused, leaves ref_stats as it is.
C36_FirstUpdateAdoptsReference ==
    [][call'.op = "update" =>
          IF ~is_paused /\ ref_stats = None
          THEN /\ ref_stats' = Some(Measured(call'.arg, current_mask'))
               /\ hsv_history' = Append(hsv_history, ZeroSample)
          ELSE ref_stats' = ref_stats]_vars

\* C31: in every reachable state in which is_ellipse_enabled is false,
\* current_mask and current_ellipse are None, also when set_ellipse_masking(
\* False) is called by the web server while an update is under way in the
\* analysis thread.
C31_DisabledMeansNoMask ==
    ~is_ellipse_enabled => current_mask = None /\ current_ellipse = None

\* C37: update never fails when set_reference runs in the web server's thread
\* at the same time: no read of the last history element raises, so the
\* analysis loop is never ended by an exception.
C37_UpdateNeverRaises == ~at("raised")

\* C32: at most one capture loop writes to the frame slot: once a capture
\* thread started later has stored a frame, no capture thread started before
\* it stores a frame any more.
C32_OneLoopWrites ==
    [][\A i \in DOMAIN capture_loops :
          capture_loops'[i].stored > capture_loops[i].stored =>
              \A j \in DOMAIN capture_loops :
                  j > i => capture_loops[j].stored = 0]_vars

LockUsers == FrameCallers \cup {Capture} \cup Handlers

\* thread t is blocked in the acquire of a lock
Blocked(t) == t \in waiting \/ (t = Capture /\ pc[Capture] = "acquire")

\* thread t holds a lock
Holds(t) == camera_lock = t \/ server_lock = t

====
